---- MODULE Spec2Model ----
(***************************************************************************)
(* Model of the type-directed code generation engine of speedy.js: the     *)
(* array class reference, the speedyjs function factory, the Math object   *)
(* reference and the prefix unary expression generator, all working on one *)
(* code generation context (module, builder, requiresGc flag).             *)
(***************************************************************************)
EXTENDS Integers, Sequences, FiniteSets, TLC

VARIABLES
    requiresGc,   \* context.requiresGc
    functions,    \* the functions of context.module
    mangled,      \* every name mangling performed in this compilation
    last,         \* the generation step performed last and its outcome
    llvmTypes,    \* ArrayClassReference.llvmTypes: element type -> struct type
    structTypes,  \* the struct types created in context.llvmContext
    unit          \* the compilation unit: its state and what was output of it

vars == <<requiresGc, functions, mangled, last, llvmTypes, structTypes, unit>>

----------------------------------------------------------------------------
(* Bounds *)

\* largest number of elements of an array literal
MaxElements == 3

\* largest number of functions created in the module of one compilation
MaxFunctions == 3

----------------------------------------------------------------------------
(* Static types (ts.Type) *)

PrimitiveTypes == {"int", "number", "boolean"}

ArrayTypes == {"int[]", "number[]"}

TsTypes == PrimitiveTypes \cup ArrayTypes \cup {"string"}

\* the unions of an object type with null
NullableTypes == {"Foo | null", "int[] | null"}

\* ts.TypeFlags of a type, as tested with (type.flags & ts.TypeFlags.X)
typeFlags(type) ==
    CASE type \in NullableTypes -> {"Union"}
      [] type = "int" -> {"IntLike"}
      [] type = "number" -> {"NumberLike"}
      [] type = "boolean" -> {"BooleanLike"}
      [] type = "string" -> {"StringLike"}
      [] OTHER -> {"Object"}

\* typeChecker.typeToString: the printed name of a type
typeToString(type) ==
    CASE type = "int[]" -> "Array<int>"
      [] type = "number[]" -> "Array<number>"
      [] OTHER -> type

\* getArrayElementType
getArrayElementType(type) ==
    CASE type = "int[]" -> "int"
      [] type = "boolean[]" -> "boolean"
      [] type = "Foo[]" -> "Foo"
      [] type = "(Foo | null)[]" -> "Foo | null"
      [] type = "int[][]" -> "int[]"
      [] type = "(int[] | null)[]" -> "int[] | null"
      [] OTHER -> "number"

\* type.getNonNullableType()
getNonNullableType(type) ==
    CASE type = "Foo | null" -> "Foo"
      [] type = "int[] | null" -> "int[]"
      [] OTHER -> type

\* isMaybeObjectType(type): a union of an object type with null
isMaybeObjectType(type) ==
    /\ "Union" \in typeFlags(type)
    /\ "Object" \in typeFlags(getNonNullableType(type))

\* toLLVMType for the types that are not arrays
toLLVMType(type) ==
    CASE type = "int" -> "i32"
      [] type = "number" -> "double"
      [] type = "boolean" -> "i1"
      [] OTHER -> "i8*"

\* getLLVMArrayElementType without the case of the boolean-like types
getLLVMArrayElementType_booleanAsI1(tsElementType) ==
    LET elementType == IF isMaybeObjectType(tsElementType)
                       THEN getNonNullableType(tsElementType) ELSE tsElementType
    IN  IF "Object" \in typeFlags(elementType) THEN "i8*"
        ELSE toLLVMType(elementType)

\* getLLVMArrayElementType: the type of the elements as stored in the array
getLLVMArrayElementType(tsElementType) ==
    LET elementType == IF isMaybeObjectType(tsElementType)
                       THEN getNonNullableType(tsElementType) ELSE tsElementType
    IN  IF "Object" \in typeFlags(elementType) THEN "i8*"
        ELSE IF "BooleanLike" \in typeFlags(elementType) THEN "i8"
        ELSE toLLVMType(elementType)

----------------------------------------------------------------------------
(* Operands and instructions of the low level IR *)

\* an llvm.Value used as operand: ref names it, ty is its llvm type,
\* n is its value when it is an integer constant
Operand(ref, ty, n) == [ref |-> ref, ty |-> ty, n |-> n]

NoOperand == Operand("none", "void", 0)

\* an emitted instruction
Instr(op, fn, args, elems) == [op |-> op, fn |-> fn, args |-> args, elems |-> elems]

\* the element values of array literals; c1 and c2 are llvm.Constant
ElementRefs == {"c1", "c2", "v1"}

ConstantRefs == {"c1", "c2"}

\* the sequences over S of length at most n
RECURSIVE SeqsUpTo(_, _)
SeqsUpTo(S, n) ==
    IF n = 0 THEN {<<>>}
    ELSE LET shorter == SeqsUpTo(S, n - 1)
         IN shorter \cup {Append(s, x) : s \in {t \in shorter : Len(t) = n - 1}, x \in S}

\* the array literals generated: their element values in literal order
ArrayLiterals == SeqsUpTo(ElementRefs, MaxElements)

----------------------------------------------------------------------------
(* Diagnostics and outcomes *)

NoDiagnostic == [code |-> "none", node |-> "none", object |-> "none", detail |-> "none"]

Diagnostic(code, node, object, detail) ==
    [code |-> code, node |-> node, object |-> object, detail |-> detail]

\* a reference to a function or property: what it refers to, whether it is a
\* pre-declared function of the runtime, and the properties it was created with
Reference(member, runtime, properties) ==
    [member |-> member, runtime |-> runtime, properties |-> properties]

NoReference == Reference("none", FALSE, {})

\* the record of a generation step
Step(op, input, outcome, diag, emitted, value) ==
    [op |-> op, input |-> input, outcome |-> outcome, diag |-> diag,
     emitted |-> emitted, value |-> value, reference |-> NoReference]

NoInput == [type |-> "none", elements |-> <<>>, name |-> "none", types |-> <<>>,
            operator |-> "none", resultType |-> "none"]

----------------------------------------------------------------------------
(* The module under construction (llvm.Module) *)

\* a function of the module: name is the name it was created for, suffix the
\* number llvm appends to keep the symbol unique (0 for the first of a name)
Fn(name, suffix, params, attrs, defined) ==
    [name |-> name, suffix |-> suffix, params |-> params, attrs |-> attrs,
     defined |-> defined]

\* module.getFunction(name): the functions registered under exactly this name
getFunction(fns, name) == {f \in fns : f.name = name /\ f.suffix = 0}

\* llvm.Function.create(type, linkage, name, module)
Function_create(fns, name, params, attrs, defined) ==
    fns \cup {Fn(name, Cardinality({f \in fns : f.name = name}), params, attrs, defined)}

\* type.getPointerTo() / llvm.PointerType.get(type, 0)
getPointerTo(ty) ==
    CASE ty = "i32" -> "i32*"
      [] ty = "double" -> "double*"
      [] ty = "i8" -> "i8*"
      [] OTHER -> "i8**"

----------------------------------------------------------------------------
(* Name mangling *)

\* the code of a type inside a mangled name
typeCode(type) ==
    CASE type = "int" -> "i"
      [] type = "number" -> "d"
      [] type = "boolean" -> "b"
      [] type = "string" -> "s"
      [] type = "int[]" -> "Ai"
      [] type = "number[]" -> "Ad"
      [] type = "Math" -> "Math"
      [] OTHER -> ""

\* the codes of the ordered parameter types
encodeArguments(types) == [i \in 1..Len(types) |-> typeCode(types[i])]

\* RuntimeSystemNameMangler.mangleMethodName(classType, methodName, argumentTypes)
mangleMethodName(classType, methodName, types) ==
    <<typeCode(classType), methodName>> \o encodeArguments(types)

\* a resolved function (createResolvedFunction)
ResolvedFunction(functionName, classType, async, parameters) ==
    [functionName |-> functionName, classType |-> classType, async |-> async,
     parameters |-> parameters]

\* FunctionFactory.mangleFunctionName with the DefaultNameMangler
FunctionFactory_mangleFunctionName(resolvedFunction, typesOfUsedParameters) ==
    <<typeCode(resolvedFunction.classType), resolvedFunction.functionName>>
        \o encodeArguments(typesOfUsedParameters)

\* mangleFunctionName without the call of the name mangler of the base class
mangleFunctionName_unmangled(resolvedFunction, typesOfUsedParameters) ==
    <<resolvedFunction.functionName>>

\* mangleFunctionName with the test of the async modifier inverted
mangleFunctionName_asyncInverted(resolvedFunction, typesOfUsedParameters) ==
    IF ~resolvedFunction.async
    THEN <<resolvedFunction.functionName>>
    ELSE FunctionFactory_mangleFunctionName(resolvedFunction, typesOfUsedParameters)

\* SpeedyJSFunctionFactory.mangleFunctionName
mangleFunctionName(resolvedFunction, typesOfUsedParameters) ==
    IF resolvedFunction.async
    THEN <<resolvedFunction.functionName>>
    ELSE FunctionFactory_mangleFunctionName(resolvedFunction, typesOfUsedParameters)

\* the record kept of one mangling
Mangling(classType, functionName, types, async, name) ==
    [classType |-> classType, functionName |-> functionName, types |-> types,
     async |-> async, name |-> name]

----------------------------------------------------------------------------
(* llvm-array-helpers *)

\* sizeof(type, context) in bytes on wasm32
sizeof(ty) ==
    CASE ty = "i8" -> 1
      [] ty = "i1" -> 1
      [] ty = "double" -> 8
      [] OTHER -> 4

\* the stores of the loop of allocateLlvmArrayWith, from index i on
RECURSIVE storeElements(_, _, _)
storeElements(elements, elementType, i) ==
    IF i < Len(elements)
    THEN << Instr("gep", <<>>, <<Operand("allocation", getPointerTo(elementType), 0),
                                 Operand("const", "i32", 0), Operand("const", "i32", i)>>, <<>>),
            Instr("store", <<>>, <<Operand(elements[i + 1], elementType, 0),
                                   Operand("ptr", getPointerTo(elementType), i)>>, <<>>) >>
         \o storeElements(elements, elementType, i + 1)
    ELSE <<>>

\* module.getOrInsertFunction(name, type)
getOrInsertFunction(fns, name, params) ==
    IF getFunction(fns, name) # {} THEN fns ELSE Function_create(fns, name, params, {}, FALSE)

\* assignFromConstantArray: a private constant global and a memcpy into the allocation
assignFromConstantArray(fns, elements, elementType) ==
    [functions |-> getOrInsertFunction(fns, <<"llvm.memcpy.p0i8.p0i8.i32">>,
                                       <<"i8*", "i8*", "i32", "i32", "i1">>),
     emitted |->
        << Instr("global", <<>>, <<>>, elements),
           Instr("bitcast", <<>>, <<Operand("allocation", "i8*", 0)>>, <<>>),
           Instr("bitcast", <<>>, <<Operand("global", "i8*", 0)>>, <<>>),
           Instr("call", <<"llvm.memcpy.p0i8.p0i8.i32">>,
                 << Operand("allocation", "i8*", 0), Operand("global", "i8*", 0),
                    Operand("const", "i32", Len(elements) * sizeof(elementType)),
                    Operand("const", "i32", 0), Operand("const", "i1", 0) >>, <<>>) >>]

\* allocateLlvmArrayWith with a loop that starts at the second element
allocateLlvmArrayWith_skipsFirst(fns, elements, elementType) ==
    LET areAllElementsConstants == \A i \in 1..Len(elements) : elements[i] \in ConstantRefs
        allocation ==
            << Instr("alloca", <<>>, <<Operand("const", "i32", Len(elements))>>, <<>>),
               Instr("gep", <<>>, <<Operand("allocation", getPointerTo(elementType), 0),
                                    Operand("const", "i32", 0), Operand("const", "i32", 0)>>, <<>>) >>
        assigned == assignFromConstantArray(fns, elements, elementType)
    IN  IF areAllElementsConstants
        THEN [functions |-> assigned.functions, emitted |-> allocation \o assigned.emitted]
        ELSE [functions |-> fns, emitted |-> allocation \o storeElements(elements, elementType, 1)]

\* allocateLlvmArrayWith: the instructions that allocate the array in the entry
\* block and store the elements in it; its value is the pointer "array"
allocateLlvmArrayWith(fns, elements, elementType) ==
    LET areAllElementsConstants == \A i \in 1..Len(elements) : elements[i] \in ConstantRefs
        allocation ==
            << Instr("alloca", <<>>, <<Operand("const", "i32", Len(elements))>>, <<>>),
               Instr("gep", <<>>, <<Operand("allocation", getPointerTo(elementType), 0),
                                    Operand("const", "i32", 0), Operand("const", "i32", 0)>>, <<>>) >>
        assigned == assignFromConstantArray(fns, elements, elementType)
    IN  IF areAllElementsConstants
        THEN [functions |-> assigned.functions, emitted |-> allocation \o assigned.emitted]
        ELSE [functions |-> fns, emitted |-> allocation \o storeElements(elements, elementType, 0)]

\* llvmArrayValue: the pointer to the elements and the instructions emitted for it
llvmArrayValue(fns, elements, elementType) ==
    IF Len(elements) = 0
    THEN [value |-> Operand("null", getPointerTo(elementType), 0), functions |-> fns,
          emitted |-> <<>>]
    ELSE LET allocated == allocateLlvmArrayWith(fns, elements, elementType)
         IN  [value |-> Operand("array", getPointerTo(elementType), 0),
              functions |-> allocated.functions, emitted |-> allocated.emitted]

----------------------------------------------------------------------------
(* Values and function references *)

\* context.value(ir, type): an operand with its static type
Value(ir, type) == [ir |-> ir, type |-> type]

NoValue == Value(NoOperand, "none")

\* FunctionFactory.getOrCreate of the runtime function factory: the pre-declared
\* runtime function of a resolved function, declared in the module at most once
createRuntimeFunction(fns, resolvedFunction, types, params, attrs) ==
    LET name == mangleMethodName(resolvedFunction.classType, resolvedFunction.functionName, types)
    IN  [name |-> name,
         mangling |-> Mangling(resolvedFunction.classType, resolvedFunction.functionName, types,
                              resolvedFunction.async, name),
         functions |-> IF getFunction(fns, name) # {} THEN fns
                       ELSE Function_create(fns, name, params, attrs, FALSE)]

\* ResolvedFunctionReference.invokeWith for a function with one variadic
\* parameter: the arguments are passed as a pointer to the elements and their number
invokeWith(fns, name, elements, elementType) ==
    LET array == llvmArrayValue(fns, elements, elementType)
    IN  [functions |-> array.functions,
         emitted |-> array.emitted \o
            <<Instr("call", name, <<array.value, Operand("const", "i32", Len(elements))>>, <<>>)>>,
         ir |-> Operand("call", "Array*", 0)]

----------------------------------------------------------------------------
(* ArrayClassReference *)

\* ArrayClassReference.fromLiteral(type, elements, context)
fromLiteral(type, elements) ==
    LET elementType == getLLVMArrayElementType(getArrayElementType(type))
        resolvedConstructor == ResolvedFunction("constructor", type, FALSE, <<type>>)
        constructorFunction ==
            createRuntimeFunction(functions, resolvedConstructor, <<type>>,
                                  <<getPointerTo(elementType), "i32">>, {})
        invoked == invokeWith(constructorFunction.functions, constructorFunction.name,
                              elements, elementType)
    IN  /\ Cardinality(invoked.functions) <= MaxFunctions
        /\ mangled' = mangled \cup {constructorFunction.mangling}
        /\ requiresGc' = TRUE
        /\ functions' = invoked.functions
        /\ last' = Step("fromLiteral", [NoInput EXCEPT !.type = type, !.elements = elements],
                        "returned", NoDiagnostic, invoked.emitted, Value(invoked.ir, type))
        /\ UNCHANGED <<llvmTypes, structTypes>>

\* fromCArray that sets the flag only when it declares the constructor
fromCArray_gcOnlyWhenDeclared(type) ==
    LET constructorName == mangleMethodName(type, "constructor", <<type>>)
        constructorFn == getFunction(functions, constructorName)
        elementType == getLLVMArrayElementType(getArrayElementType(type))
        elementsPtr == Operand("elementsPtr", getPointerTo(elementType), 0)
        length == Operand("length", "i32", 0)
        arrayPtr == Instr("call", constructorName, <<elementsPtr, length>>, <<>>)
    IN  /\ functions' =
              IF constructorFn = {}
              THEN Function_create(functions, constructorName,
                                   <<getPointerTo(elementType), "i32">>, {"AlwaysInline"}, FALSE)
              ELSE functions
        /\ Cardinality(functions') <= MaxFunctions
        /\ mangled' = mangled \cup {Mangling(type, "constructor", <<type>>, FALSE, constructorName)}
        /\ requiresGc' = (constructorFn = {})
        /\ last' = Step("fromCArray", [NoInput EXCEPT !.type = type], "returned", NoDiagnostic,
                        <<arrayPtr>>, Value(Operand("call", "Array*", 0), type))
        /\ UNCHANGED <<llvmTypes, structTypes>>

\* fromCArray that declares the constructor without looking it up in the module
fromCArray_alwaysDeclares(type) ==
    LET constructorName == mangleMethodName(type, "constructor", <<type>>)
        elementType == getLLVMArrayElementType(getArrayElementType(type))
        elementsPtr == Operand("elementsPtr", getPointerTo(elementType), 0)
        length == Operand("length", "i32", 0)
        arrayPtr == Instr("call", constructorName, <<elementsPtr, length>>, <<>>)
    IN  /\ functions' = Function_create(functions, constructorName,
                                        <<getPointerTo(elementType), "i32">>, {"AlwaysInline"}, FALSE)
        /\ Cardinality(functions') <= MaxFunctions
        /\ mangled' = mangled \cup {Mangling(type, "constructor", <<type>>, FALSE, constructorName)}
        /\ requiresGc' = TRUE
        /\ last' = Step("fromCArray", [NoInput EXCEPT !.type = type], "returned", NoDiagnostic,
                        <<arrayPtr>>, Value(Operand("call", "Array*", 0), type))
        /\ UNCHANGED <<llvmTypes, structTypes>>

\* ArrayClassReference.fromCArray(type, elementsPtr, length, context)
fromCArray(type) ==
    LET constructorName == mangleMethodName(type, "constructor", <<type>>)
        constructorFn == getFunction(functions, constructorName)
        elementType == getLLVMArrayElementType(getArrayElementType(type))
        elementsPtr == Operand("elementsPtr", getPointerTo(elementType), 0)
        length == Operand("length", "i32", 0)
        arrayPtr == Instr("call", constructorName, <<elementsPtr, length>>, <<>>)
    IN  /\ functions' =
              IF constructorFn = {}
              THEN Function_create(functions, constructorName,
                                   <<getPointerTo(elementType), "i32">>, {"AlwaysInline"}, FALSE)
              ELSE functions
        /\ Cardinality(functions') <= MaxFunctions
        /\ mangled' = mangled \cup {Mangling(type, "constructor", <<type>>, FALSE, constructorName)}
        /\ requiresGc' = TRUE
        /\ last' = Step("fromCArray", [NoInput EXCEPT !.type = type], "returned", NoDiagnostic,
                        <<arrayPtr>>, Value(Operand("call", "Array*", 0), type))
        /\ UNCHANGED <<llvmTypes, structTypes>>

\* getConstructor that leaves the flag as it is
getConstructor_leavesGc(type) ==
    /\ last' = Step("getConstructor", [NoInput EXCEPT !.type = type], "returned", NoDiagnostic,
                    <<>>, Value(Operand("constructor", "function", 0), type))
    /\ UNCHANGED <<requiresGc, functions, mangled, llvmTypes, structTypes>>

\* ArrayClassReference.getConstructor(newExpression, context): the reference to
\* the constructor of the resolved signature of the new expression
getConstructor(type) ==
    /\ requiresGc' = TRUE
    /\ last' = Step("getConstructor", [NoInput EXCEPT !.type = type], "returned", NoDiagnostic,
                    <<>>, Value(Operand("constructor", "function", 0), type))
    /\ UNCHANGED <<functions, mangled, llvmTypes, structTypes>>

----------------------------------------------------------------------------
(* SpeedyJSFunctionFactory *)

\* the functions declared in the compiled program that are marked "speedyjs"
Declarations == {"max3", "clamp3", "main", "broken3", "extern3"}

\* the async modifier of the declaration
isAsync(functionName) == functionName = "main"

\* whether the declaration has a body
hasBody(functionName) == functionName # "extern3"

\* the functions called in the body of the declaration, in order; each call
\* passes the parameters of the calling function on
bodyCalls(functionName) ==
    CASE functionName = "clamp3" -> <<"max3", "clamp3">>
      [] functionName = "main" -> <<"max3">>
      [] functionName = "broken3" -> <<"max3", "extern3">>
      [] OTHER -> <<>>

\* the concrete parameter types of the calls to these functions
ParameterTypes ==
    {<<"int", "int", "int">>, <<"int", "int", "number">>, <<"number", "int", "int">>}

\* a CodeGenerationContext: the context it is a child of (0 for the context of
\* the compilation), the function whose body it generates, the variables of
\* its scope, the instructions at the insertion point of its builder, and
\* whether the call that created it has returned
Context(parent, function, scope, block, discarded) ==
    [parent |-> parent, function |-> function, scope |-> scope, block |-> block,
     discarded |-> discarded]

\* the context a call of a speedyjs function is generated in: it has a variable
\* in scope and instructions before its insertion point
CallingContext ==
    Context(0, "none", {"x"}, <<Instr("load", "none", <<Operand("x", "i32*", 0)>>, <<>>)>>, FALSE)

\* the names a child context binds the parameters of its function to
ArgumentNames == <<"a", "b", "c">>

\* the state a function generation works on: the module, the manglings, the
\* failure raised, the contexts created (the first is the calling context) and
\* the index of the context the running code generates in
Generation(fns, names, thrown) ==
    [functions |-> fns, mangled |-> names, thrown |-> thrown,
     contexts |-> <<CallingContext>>, context |-> 1]

\* context.createChildContext() with the parameters of the function bound: the
\* generation continues in the new context
createChildContext(generation, function, parameters) ==
    [generation EXCEPT
        !.contexts = Append(@, Context(generation.context, function,
                                       {ArgumentNames[i] : i \in 1..Len(parameters)},
                                       <<>>, FALSE)),
        !.context = Len(generation.contexts) + 1]

\* builder.createCall of the context the running code generates in
createCall(generation, name, types) ==
    [generation EXCEPT
        !.contexts[generation.context].block =
            Append(@, Instr("call", name,
                            [i \in 1..Len(types) |-> Operand("arg", toLLVMType(types[i]), i)],
                            <<>>))]

RECURSIVE getOrCreate(_, _, _)
RECURSIVE createFunction(_, _, _)
RECURSIVE define(_, _, _, _)

\* FunctionFactory.getOrCreate: the function of the mangled name, created when the
\* module has none of this name
getOrCreate(generation, functionName, typesOfUsedParameters) ==
    LET resolvedFunction ==
            ResolvedFunction(functionName, "none", isAsync(functionName), typesOfUsedParameters)
        mangledName == mangleFunctionName(resolvedFunction, typesOfUsedParameters)
        named == [generation EXCEPT !.mangled =
                     @ \cup {Mangling("none", functionName, typesOfUsedParameters,
                                      resolvedFunction.async, mangledName)}]
    IN  IF getFunction(generation.functions, mangledName) # {}
        THEN named
        ELSE createFunction(named, mangledName, resolvedFunction)

\* createFunction that returns the function also when the generation of its
\* body has failed
createFunction_swallowsFailure(generation, mangledName, resolvedFunction) ==
    IF ~hasBody(resolvedFunction.functionName)
    THEN [generation EXCEPT !.thrown =
             Diagnostic("AssertionError", resolvedFunction.functionName, "none",
                        "Cannot define a function without a body")]
    ELSE LET fn == Fn(mangledName,
                      Cardinality({f \in generation.functions : f.name = mangledName}),
                      [i \in 1..Len(resolvedFunction.parameters) |->
                          toLLVMType(resolvedFunction.parameters[i])],
                      {"Hidden"}, FALSE)
             created == [generation EXCEPT !.functions = @ \cup {fn}]
             childContext == createChildContext(created, mangledName, resolvedFunction.parameters)
             defined == define(childContext, bodyCalls(resolvedFunction.functionName),
                               resolvedFunction.parameters, 1)
         IN  IF defined.thrown # NoDiagnostic
             THEN [defined EXCEPT
                      !.thrown = NoDiagnostic,
                      !.contexts[childContext.context].discarded = TRUE,
                      !.context = generation.context]
             ELSE [defined EXCEPT
                      !.functions = (@ \ {fn}) \cup {[fn EXCEPT !.defined = TRUE]},
                      !.contexts[childContext.context].discarded = TRUE,
                      !.context = generation.context]

\* createFunction that generates the body in the calling context
createFunction_inCallingContext(generation, mangledName, resolvedFunction) ==
    IF ~hasBody(resolvedFunction.functionName)
    THEN [generation EXCEPT !.thrown =
             Diagnostic("AssertionError", resolvedFunction.functionName, "none",
                        "Cannot define a function without a body")]
    ELSE LET fn == Fn(mangledName,
                      Cardinality({f \in generation.functions : f.name = mangledName}),
                      [i \in 1..Len(resolvedFunction.parameters) |->
                          toLLVMType(resolvedFunction.parameters[i])],
                      {"Hidden"}, FALSE)
             created == [generation EXCEPT !.functions = @ \cup {fn}]
             childContext == createChildContext(created, mangledName, resolvedFunction.parameters)
             defined == define([childContext EXCEPT !.context = generation.context],
                               bodyCalls(resolvedFunction.functionName),
                               resolvedFunction.parameters, 1)
         IN  IF defined.thrown # NoDiagnostic
             THEN defined
             ELSE [defined EXCEPT
                      !.functions = (@ \ {fn}) \cup {[fn EXCEPT !.defined = TRUE]},
                      !.contexts[childContext.context].discarded = TRUE,
                      !.context = generation.context]

\* SpeedyJSFunctionFactory.createFunction: registers the function under its
\* mangled name, then generates its body in a child context; the caller goes
\* on in its own context when createFunction has returned
createFunction(generation, mangledName, resolvedFunction) ==
    IF ~hasBody(resolvedFunction.functionName)
    THEN [generation EXCEPT !.thrown =
             Diagnostic("AssertionError", resolvedFunction.functionName, "none",
                        "Cannot define a function without a body")]
    ELSE LET fn == Fn(mangledName,
                      Cardinality({f \in generation.functions : f.name = mangledName}),
                      [i \in 1..Len(resolvedFunction.parameters) |->
                          toLLVMType(resolvedFunction.parameters[i])],
                      {"Hidden"}, FALSE)
             created == [generation EXCEPT !.functions = @ \cup {fn}]
             childContext == createChildContext(created, mangledName, resolvedFunction.parameters)
             defined == define(childContext, bodyCalls(resolvedFunction.functionName),
                               resolvedFunction.parameters, 1)
         IN  IF defined.thrown # NoDiagnostic
             THEN defined
             ELSE [defined EXCEPT
                      !.functions = (@ \ {fn}) \cup {[fn EXCEPT !.defined = TRUE]},
                      !.contexts[childContext.context].discarded = TRUE,
                      !.context = generation.context]

\* FunctionDefinitionBuilder.define: generates the calls of the body from the
\* i-th on in the context of the builder; a failing call ends the generation
\* of the body
define(generation, calls, types, i) ==
    IF i > Len(calls) \/ generation.thrown # NoDiagnostic
    THEN generation
    ELSE LET callee == getOrCreate(generation, calls[i], types)
             name == mangleFunctionName(
                         ResolvedFunction(calls[i], "none", isAsync(calls[i]), types), types)
         IN  define(IF callee.thrown # NoDiagnostic THEN callee
                    ELSE createCall(callee, name, types),
                    calls, types, i + 1)

\* a call of a speedyjs function with arguments of the given types, generated
\* in the context of the compilation
invokeFunction(functionName, types) ==
    LET generated == getOrCreate(Generation(functions, mangled, NoDiagnostic), functionName, types)
        name == mangleFunctionName(ResolvedFunction(functionName, "none", isAsync(functionName), types), types)
        input == [NoInput EXCEPT !.name = functionName, !.types = types]
    IN  /\ Cardinality(generated.functions) <= MaxFunctions
        /\ functions' = generated.functions
        /\ mangled' = generated.mangled
        /\ last' = [contexts |-> generated.contexts, context |-> generated.context] @@
                   (IF generated.thrown # NoDiagnostic
                    THEN Step("invokeFunction", input, "threw", generated.thrown, <<>>, NoValue)
                    ELSE Step("invokeFunction", input, "returned", NoDiagnostic,
                              <<Instr("call", name,
                                      [i \in 1..Len(types) |-> Operand("arg", toLLVMType(types[i]), i)],
                                      <<>>)>>,
                              Value(Operand("call", "i32", 0), "int")))
        /\ UNCHANGED <<requiresGc, llvmTypes, structTypes>>

----------------------------------------------------------------------------
(* Primitive conversions *)

\* Primitive.toNumber(value, valueType, numberType, context)
toNumber(value, valueType, numberType) ==
    IF "IntLike" \in typeFlags(valueType)
    THEN [value |-> Value(Operand(value.ir.ref, toLLVMType(numberType), 0), numberType),
          emitted |-> <<Instr("sitofp", <<>>, <<value.ir>>, <<>>)>>]
    ELSE [value |-> Value(value.ir, numberType), emitted |-> <<>>]

\* Primitive.toBoolean(value, valueType, context)
toBoolean(value, valueType) ==
    IF "BooleanLike" \in typeFlags(valueType)
    THEN [value |-> value, emitted |-> <<>>]
    ELSE [value |-> Value(Operand(value.ir.ref, "i1", 0), "boolean"),
          emitted |-> <<Instr(IF "IntLike" \in typeFlags(valueType) THEN "icmp ne" ELSE "fcmp one",
                              <<>>, <<value.ir>>, <<>>)>>]

\* Primitive.toInt32(value, valueType, int32Type, context)
toInt32(value, valueType, int32Type) ==
    IF "IntLike" \in typeFlags(valueType)
    THEN [value |-> Value(value.ir, int32Type), emitted |-> <<>>]
    ELSE [value |-> Value(Operand(value.ir.ref, "i32", 0), int32Type),
          emitted |-> <<Instr(IF "BooleanLike" \in typeFlags(valueType) THEN "zext" ELSE "fptosi",
                              <<>>, <<value.ir>>, <<>>)>>]

\* Value.castImplicit(type, context): the value in the given type, NoValue when
\* the value cannot be cast implicitly
castImplicit(value, type) ==
    IF value.type = type
    THEN [value |-> value, emitted |-> <<>>]
    ELSE IF "IntLike" \in typeFlags(value.type) /\ "NumberLike" \in typeFlags(type)
    THEN [value |-> Value(Operand(value.ir.ref, toLLVMType(type), 0), type),
          emitted |-> <<Instr("sitofp", <<>>, <<value.ir>>, <<>>)>>]
    ELSE [value |-> NoValue, emitted |-> <<>>]

----------------------------------------------------------------------------
(* MathObjectReference *)

\* the members of the type of the Math object that the compiled program accesses
MathMethods == {"pow", "sqrt", "log", "sin", "cos", "max", "abs", "floor", "frobnicate"}

MathProperties == {"PI", "E"}

\* CodeGenerationDiagnostics.builtInMethodNotSupported(node, objectName, methodName)
builtInMethodNotSupported(node, objectName, methodName) ==
    Diagnostic("UnsupportedBuiltIn", node, objectName, methodName)

\* BuiltInObjectReference.throwUnsupportedBuiltIn(propertyAccess) of the object
\* with the given typeName
throwUnsupportedBuiltIn(typeName, propertyAccess) ==
    Diagnostic("UnsupportedBuiltIn", propertyAccess, typeName, propertyAccess)

\* createFunctionFor without the default case: every method is a runtime method
createFunctionFor_noDefault(symbolName) ==
    [Step("createFunctionFor", [NoInput EXCEPT !.name = symbolName], "returned",
          NoDiagnostic, <<>>, Value(Operand(symbolName, "function", 0), "function"))
     EXCEPT !.reference = Reference(symbolName, TRUE, {"readnone", "noUnwind"})]

\* createFunctionFor that creates the runtime methods without noUnwind
createFunctionFor_mayUnwind(symbolName) ==
    IF symbolName \in {"pow", "sqrt", "log", "sin", "cos", "max"}
    THEN [Step("createFunctionFor", [NoInput EXCEPT !.name = symbolName], "returned",
               NoDiagnostic, <<>>, Value(Operand(symbolName, "function", 0), "function"))
          EXCEPT !.reference = Reference(symbolName, TRUE, {"readnone"})]
    ELSE Step("createFunctionFor", [NoInput EXCEPT !.name = symbolName], "threw",
              builtInMethodNotSupported(symbolName, "Math", symbolName), <<>>, NoValue)

\* MathObjectReference.createFunctionFor(symbol, signatures, propertyAccessExpression, context)
createFunctionFor(symbolName) ==
    IF symbolName \in {"pow", "sqrt", "log", "sin", "cos", "max"}
    THEN [Step("createFunctionFor", [NoInput EXCEPT !.name = symbolName], "returned",
               NoDiagnostic, <<>>, Value(Operand(symbolName, "function", 0), "function"))
          EXCEPT !.reference = Reference(symbolName, TRUE, {"readnone", "noUnwind"})]
    ELSE Step("createFunctionFor", [NoInput EXCEPT !.name = symbolName], "threw",
              builtInMethodNotSupported(symbolName, "Math", symbolName), <<>>, NoValue)

\* MathObjectReference.createPropertyReference(symbol, propertyAccess, context)
createPropertyReference(symbolName) ==
    IF symbolName = "PI"
    THEN [Step("createPropertyReference", [NoInput EXCEPT !.name = symbolName], "returned",
               NoDiagnostic, <<>>, Value(Operand(symbolName, "property", 0), "number"))
          EXCEPT !.reference = Reference(symbolName, TRUE, {"readonly"})]
    ELSE Step("createPropertyReference", [NoInput EXCEPT !.name = symbolName], "threw",
              throwUnsupportedBuiltIn("Math", symbolName), <<>>, NoValue)

\* BuiltInObjectReference.getProperty: the access Math.<symbolName> of the program
getProperty(symbolName) ==
    /\ last' = IF symbolName \in MathMethods
               THEN createFunctionFor(symbolName)
               ELSE createPropertyReference(symbolName)
    /\ UNCHANGED <<requiresGc, functions, mangled, llvmTypes, structTypes>>

\* the static types of the operands of the power operator
NumericTypes == {"int", "number"}

\* pow that passes the exponent as it is
pow_exponentUnconverted(lhsType, rhsType, numberType) ==
    LET lhs == Value(Operand("lhs", toLLVMType(lhsType), 0), lhsType)
        rhs == Value(Operand("rhs", toLLVMType(rhsType), 0), rhsType)
        method == Reference("pow", TRUE, {"readnone", "noUnwind"})
        base == toNumber(lhs, lhsType, numberType)
        args == <<base.value.ir, rhs.ir>>
        powFunction ==
            createRuntimeFunction(functions,
                                  ResolvedFunction("pow", "Math", FALSE, <<numberType, numberType>>),
                                  <<numberType, numberType>>,
                                  <<toLLVMType(numberType), toLLVMType(numberType)>>,
                                  method.properties)
    IN  /\ Cardinality(powFunction.functions) <= MaxFunctions
        /\ functions' = powFunction.functions
        /\ mangled' = mangled \cup {powFunction.mangling}
        /\ last' = [Step("pow", [NoInput EXCEPT !.types = <<lhsType, rhsType>>,
                                                !.resultType = numberType],
                         "returned", NoDiagnostic,
                         base.emitted \o <<Instr("call", powFunction.name, args, <<>>)>>,
                         Value(Operand("call", toLLVMType(numberType), 0), numberType))
                    EXCEPT !.reference = method]
        /\ UNCHANGED <<requiresGc, llvmTypes, structTypes>>

\* MathObjectReference.pow(lhs, lhsType, rhs, rhsType, numberType, context)
pow(lhsType, rhsType, numberType) ==
    LET lhs == Value(Operand("lhs", toLLVMType(lhsType), 0), lhsType)
        rhs == Value(Operand("rhs", toLLVMType(rhsType), 0), rhsType)
        method == Reference("pow", TRUE, {"readnone", "noUnwind"})
        base == toNumber(lhs, lhsType, numberType)
        exponent == toNumber(rhs, rhsType, numberType)
        args == <<base.value.ir, exponent.value.ir>>
        powFunction ==
            createRuntimeFunction(functions,
                                  ResolvedFunction("pow", "Math", FALSE, <<numberType, numberType>>),
                                  <<numberType, numberType>>,
                                  <<toLLVMType(numberType), toLLVMType(numberType)>>,
                                  method.properties)
    IN  /\ Cardinality(powFunction.functions) <= MaxFunctions
        /\ functions' = powFunction.functions
        /\ mangled' = mangled \cup {powFunction.mangling}
        /\ last' = [Step("pow", [NoInput EXCEPT !.types = <<lhsType, rhsType>>,
                                                !.resultType = numberType],
                         "returned", NoDiagnostic,
                         base.emitted \o exponent.emitted
                             \o <<Instr("call", powFunction.name, args, <<>>)>>,
                         Value(Operand("call", toLLVMType(numberType), 0), numberType))
                    EXCEPT !.reference = method]
        /\ UNCHANGED <<requiresGc, llvmTypes, structTypes>>

----------------------------------------------------------------------------
(* PrefixUnaryExpressionCodeGenerator *)

\* the operators of prefix unary expressions; "other" is any operator that has
\* no case in the switch
PrefixUnaryOperators == {"!", "-", "--", "+", "++", "~", "other"}

\* CodeGenerationDiagnostics.unsupportedUnaryOperation(node, type)
unsupportedUnaryOperation(node, type) ==
    Diagnostic("UnsupportedOperation", node, "none", type)

\* context.assignValue(target, value): the store into the assignable target
assignValue(target, value) ==
    <<Instr("store", <<>>, <<value.ir, Operand(target.ir.ref, getPointerTo(target.ir.ty), 0)>>, <<>>)>>

\* generateResult that classifies by the type of the expression instead of
\* the type of the operand
generateResult_byResultType(operator, left, operandType, resultType) ==
    LET flags == typeFlags(resultType)
        leftIR == Instr("load", <<>>, <<Operand(left.ir.ref, getPointerTo(left.ir.ty), 0)>>, <<>>)
        one == Operand("const", "i32", 1)
        onePointZero == Operand("const", "double", 1)
        none == [result |-> NoOperand, emitted |-> <<>>]
        arithmetic(intOp, floatOp, operands) ==
            IF "IntLike" \in flags
            THEN [result |-> Operand(intOp, left.ir.ty, 0),
                  emitted |-> <<leftIR, Instr(intOp, <<>>, <<left.ir>> \o operands[1], <<>>)>>]
            ELSE IF "NumberLike" \in flags
            THEN [result |-> Operand(floatOp, left.ir.ty, 0),
                  emitted |-> <<leftIR, Instr(floatOp, <<>>, <<left.ir>> \o operands[2], <<>>)>>]
            ELSE none
    IN  CASE operator = "!" ->
               LET booleanValue == toBoolean(left, operandType)
               IN  [result |-> Operand("not", "i1", 0),
                    emitted |-> <<leftIR>> \o booleanValue.emitted
                                \o <<Instr("not", <<>>, <<booleanValue.value.ir>>, <<>>)>>]
          [] operator = "-" -> arithmetic("neg", "fneg", <<<<>>, <<>>>>)
          [] operator = "--" -> arithmetic("sub", "fsub", <<<<one>>, <<onePointZero>>>>)
          [] operator = "+" ->
               IF flags \cap {"IntLike", "NumberLike", "BooleanLike"} # {}
               THEN LET castedToResultType == castImplicit(left, resultType)
                    IN  IF castedToResultType.value # NoValue
                        THEN [result |-> castedToResultType.value.ir,
                              emitted |-> <<leftIR>> \o castedToResultType.emitted]
                        ELSE none
               ELSE none
          [] operator = "++" -> arithmetic("add", "fadd", <<<<one>>, <<onePointZero>>>>)
          [] operator = "~" ->
               LET intValue == toInt32(left, operandType, resultType)
               IN  [result |-> Operand("not", "i32", 0),
                    emitted |-> <<leftIR>> \o intValue.emitted
                                \o <<Instr("not", <<>>, <<intValue.value.ir>>, <<>>)>>]
          [] OTHER -> none

\* generateResult whose unary plus yields the operand without the implicit cast
generateResult_plusUncast(operator, left, operandType, resultType) ==
    LET flags == typeFlags(operandType)
        leftIR == Instr("load", <<>>, <<Operand(left.ir.ref, getPointerTo(left.ir.ty), 0)>>, <<>>)
        one == Operand("const", "i32", 1)
        onePointZero == Operand("const", "double", 1)
        none == [result |-> NoOperand, emitted |-> <<>>]
        arithmetic(intOp, floatOp, operands) ==
            IF "IntLike" \in flags
            THEN [result |-> Operand(intOp, left.ir.ty, 0),
                  emitted |-> <<leftIR, Instr(intOp, <<>>, <<left.ir>> \o operands[1], <<>>)>>]
            ELSE IF "NumberLike" \in flags
            THEN [result |-> Operand(floatOp, left.ir.ty, 0),
                  emitted |-> <<leftIR, Instr(floatOp, <<>>, <<left.ir>> \o operands[2], <<>>)>>]
            ELSE none
    IN  CASE operator = "!" ->
               LET booleanValue == toBoolean(left, operandType)
               IN  [result |-> Operand("not", "i1", 0),
                    emitted |-> <<leftIR>> \o booleanValue.emitted
                                \o <<Instr("not", <<>>, <<booleanValue.value.ir>>, <<>>)>>]
          [] operator = "-" -> arithmetic("neg", "fneg", <<<<>>, <<>>>>)
          [] operator = "--" -> arithmetic("sub", "fsub", <<<<one>>, <<onePointZero>>>>)
          [] operator = "+" ->
               IF flags \cap {"IntLike", "NumberLike", "BooleanLike"} # {}
               THEN [result |-> left.ir, emitted |-> <<leftIR>>]
               ELSE none
          [] operator = "++" -> arithmetic("add", "fadd", <<<<one>>, <<onePointZero>>>>)
          [] operator = "~" ->
               LET intValue == toInt32(left, operandType, resultType)
               IN  [result |-> Operand("not", "i32", 0),
                    emitted |-> <<leftIR>> \o intValue.emitted
                                \o <<Instr("not", <<>>, <<intValue.value.ir>>, <<>>)>>]
          [] OTHER -> none

\* the instructions of the switch of generate and their result; the ref of the
\* result is "none" when no case assigns it
generateResult(operator, left, operandType, resultType) ==
    LET flags == typeFlags(operandType)
        leftIR == Instr("load", <<>>, <<Operand(left.ir.ref, getPointerTo(left.ir.ty), 0)>>, <<>>)
        one == Operand("const", "i32", 1)
        onePointZero == Operand("const", "double", 1)
        none == [result |-> NoOperand, emitted |-> <<>>]
        arithmetic(intOp, floatOp, operands) ==
            IF "IntLike" \in flags
            THEN [result |-> Operand(intOp, left.ir.ty, 0),
                  emitted |-> <<leftIR, Instr(intOp, <<>>, <<left.ir>> \o operands[1], <<>>)>>]
            ELSE IF "NumberLike" \in flags
            THEN [result |-> Operand(floatOp, left.ir.ty, 0),
                  emitted |-> <<leftIR, Instr(floatOp, <<>>, <<left.ir>> \o operands[2], <<>>)>>]
            ELSE none
    IN  CASE operator = "!" ->
               LET booleanValue == toBoolean(left, operandType)
               IN  [result |-> Operand("not", "i1", 0),
                    emitted |-> <<leftIR>> \o booleanValue.emitted
                                \o <<Instr("not", <<>>, <<booleanValue.value.ir>>, <<>>)>>]
          [] operator = "-" -> arithmetic("neg", "fneg", <<<<>>, <<>>>>)
          [] operator = "--" -> arithmetic("sub", "fsub", <<<<one>>, <<onePointZero>>>>)
          [] operator = "+" ->
               IF flags \cap {"IntLike", "NumberLike", "BooleanLike"} # {}
               THEN LET castedToResultType == castImplicit(left, resultType)
                    IN  IF castedToResultType.value # NoValue
                        THEN [result |-> castedToResultType.value.ir,
                              emitted |-> <<leftIR>> \o castedToResultType.emitted]
                        ELSE none
               ELSE none
          [] operator = "++" -> arithmetic("add", "fadd", <<<<one>>, <<onePointZero>>>>)
          [] operator = "~" ->
               LET intValue == toInt32(left, operandType, resultType)
               IN  [result |-> Operand("not", "i32", 0),
                    emitted |-> <<leftIR>> \o intValue.emitted
                                \o <<Instr("not", <<>>, <<intValue.value.ir>>, <<>>)>>]
          [] OTHER -> none

\* the static types of the operands of the prefix unary expressions generated
OperandTypes(operator) ==
    IF operator \in {"!", "~"} THEN PrimitiveTypes ELSE TsTypes

\* generate without the test of the result: an operator for which no
\* instruction is selected yields its operand
generate_skipsOperator(operator, operandType, resultType) ==
    LET left == Value(Operand("x", toLLVMType(operandType), 0), operandType)
        input == [NoInput EXCEPT !.operator = operator, !.type = operandType,
                                 !.resultType = resultType]
        generated == generateResult(operator, left, operandType, resultType)
        resultValue == Value(IF generated.result = NoOperand THEN left.ir ELSE generated.result,
                             resultType)
    IN  /\ last' = Step("generate", input, "returned", NoDiagnostic,
                        generated.emitted \o
                            (IF operator = "++" \/ operator = "--"
                             THEN assignValue(left, resultValue) ELSE <<>>),
                        resultValue)
        /\ UNCHANGED <<requiresGc, functions, mangled, llvmTypes, structTypes>>

\* generate that assigns the result of ++ only
generate_assignsIncrementOnly(operator, operandType, resultType) ==
    LET left == Value(Operand("x", toLLVMType(operandType), 0), operandType)
        input == [NoInput EXCEPT !.operator = operator, !.type = operandType,
                                 !.resultType = resultType]
        generated == generateResult(operator, left, operandType, resultType)
        resultValue == Value(generated.result, resultType)
    IN  /\ last' =
              IF generated.result = NoOperand
              THEN Step("generate", input, "threw",
                        unsupportedUnaryOperation(operator, typeToString(operandType)),
                        generated.emitted, NoValue)
              ELSE Step("generate", input, "returned", NoDiagnostic,
                        generated.emitted \o
                            (IF operator = "++" THEN assignValue(left, resultValue) ELSE <<>>),
                        resultValue)
        /\ UNCHANGED <<requiresGc, functions, mangled, llvmTypes, structTypes>>

\* PrefixUnaryExpressionCodeGenerator.generate(node, context) for the expression
\* <operator> x with x a variable of the operand type
generate(operator, operandType, resultType) ==
    LET left == Value(Operand("x", toLLVMType(operandType), 0), operandType)
        input == [NoInput EXCEPT !.operator = operator, !.type = operandType,
                                 !.resultType = resultType]
        generated == generateResult(operator, left, operandType, resultType)
        resultValue == Value(generated.result, resultType)
    IN  /\ last' =
              IF generated.result = NoOperand
              THEN Step("generate", input, "threw",
                        unsupportedUnaryOperation(operator, typeToString(operandType)),
                        generated.emitted, NoValue)
              ELSE Step("generate", input, "returned", NoDiagnostic,
                        generated.emitted \o
                            (IF operator = "++" \/ operator = "--"
                             THEN assignValue(left, resultValue) ELSE <<>>),
                        resultValue)
        /\ UNCHANGED <<requiresGc, functions, mangled, llvmTypes, structTypes>>

----------------------------------------------------------------------------
(* FirstLiteralTokenCodeGenerator: numeric literals *)

\* the numbers written by the numeric literal tokens generated: the whole part
\* as hi * 2^16 + lo and the tenths, so that 65537.5 is
\* [hi |-> 1, lo |-> 1, tenths |-> 5]; the tokens go from 0 to above 2^32
LiteralTexts == [hi : {0, 2^15 - 1, 2^15, 2^16 - 1, 2^16}, lo : {0, 1, 2^16 - 1},
                 tenths : {0, 5}]

\* the types typeChecker.getTypeAtLocation resolves for a literal
LiteralTypes == PrimitiveTypes \cup {"string"}

\* llvm.ConstantInt.get(context.llvmContext, value): the constant of 32 bits for
\* the number; the fraction is cut off and the integer is read as 32 bits in
\* two's complement
ConstantInt_get(value) ==
    LET hi == value.hi % 2^16
    IN  Operand("const", "i32", (IF hi >= 2^15 THEN hi - 2^16 ELSE hi) * 2^16 + value.lo)

\* llvm.ConstantFP.get(context.llvmContext, value): the double constant
ConstantFP_get(value) == Operand("const", "double", value)

\* CodeGenerationDiagnostics.unsupportedLiteralType(node, type)
unsupportedLiteralType(node, type) ==
    Diagnostic("InvalidLiteral", node, "none", type)

\* the literal expression to generate and its resolved type
LiteralInput(text, type) == [text |-> text] @@ [NoInput EXCEPT !.type = type]

\* FirstLiteralTokenCodeGenerator.generate(node, context) for the literal that
\* is to be generated
FirstLiteralToken_generate ==
    /\ last.op = "FirstLiteralToken"
    /\ last.outcome = "pending"
    /\ LET node == last.input.text
           type == last.input.type
       IN  last' =
               IF "IntLike" \in typeFlags(type)
               THEN Step("FirstLiteralToken", last.input, "returned", NoDiagnostic, <<>>,
                         Value(ConstantInt_get(node), type))
               ELSE IF "NumberLike" \in typeFlags(type)
               THEN Step("FirstLiteralToken", last.input, "returned", NoDiagnostic, <<>>,
                         Value(ConstantFP_get(node), type))
               ELSE Step("FirstLiteralToken", last.input, "threw",
                         unsupportedLiteralType(node, typeToString(type)), <<>>, NoValue)
    /\ UNCHANGED <<requiresGc, functions, mangled, llvmTypes, structTypes>>

----------------------------------------------------------------------------
(* resolved-function.ts: the resolved function of a signature *)

MaxParameters == 2

\* declaration.kind of the declaration of a signature
DeclarationKinds == {"FunctionDeclaration", "MethodDeclaration", "MethodSignature",
                     "ConstructSignature", "Constructor", "ArrowFunction"}

\* the declarations that have no name node
UnnamedKinds == {"ConstructSignature", "Constructor", "ArrowFunction"}

\* the declarations that never have a body
SignatureKinds == {"MethodSignature", "ConstructSignature"}

\* declaration.modifiers, as far as the resolution reads them
Modifiers(kind) ==
    CASE kind \in {"MethodDeclaration"} -> SUBSET {"async", "static"}
      [] kind \in {"FunctionDeclaration", "ArrowFunction"} -> SUBSET {"async"}
      [] OTHER -> {{}}

\* the names of the parameters by position
ParameterNames == <<"a", "b", "c", "d">>

\* the forms of a ts.ParameterDeclaration: plain, optional (x?), rest (...x)
\* and with a default value (x = expr)
ParameterForms ==
    {[questionToken |-> FALSE, dotDotDotToken |-> FALSE, initializer |-> "none"],
     [questionToken |-> TRUE, dotDotDotToken |-> FALSE, initializer |-> "none"],
     [questionToken |-> FALSE, dotDotDotToken |-> TRUE, initializer |-> "none"],
     [questionToken |-> FALSE, dotDotDotToken |-> FALSE, initializer |-> "expr"]}

\* the i-th ts.ParameterDeclaration of a declaration
ParameterDeclaration(name, form) == [name |-> name] @@ form

\* the ts.Symbol of a parameter with the type the checker resolves for it
ParameterSymbol(name, type) == [name |-> name, type |-> type]

\* the parameter lists of the signatures resolved: form and type by position
ParameterLists ==
    UNION {[1..n -> ParameterForms \X {"int", "number"}] : n \in 0..MaxParameters}

\* a ts.Signature: its declaration, the symbols of its parameters, its return
\* type and the symbol of the name of its declaration with all the declarations
\* of that symbol; the declaration of an overloaded function is an overload
\* without body and the symbol has the implementation as second declaration
Signature(kind, modifiers, overloaded, returnType, list) ==
    LET declaration ==
            [kind |-> kind,
             name |-> IF kind \in UnnamedKinds THEN "none" ELSE "f",
             modifiers |-> modifiers,
             parameters |-> [i \in 1..Len(list) |->
                                ParameterDeclaration(ParameterNames[i], list[i][1])],
             body |-> kind \notin SignatureKinds /\ ~overloaded,
             parent |-> IF kind \in {"FunctionDeclaration", "ArrowFunction"}
                        THEN "none" ELSE "Foo"]
        other ==
            IF kind \in SignatureKinds
            THEN [declaration EXCEPT !.parameters = <<>>]
            ELSE [declaration EXCEPT
                     !.body = TRUE,
                     !.parameters = <<ParameterDeclaration("args",
                                         [questionToken |-> FALSE, dotDotDotToken |-> TRUE,
                                          initializer |-> "none"])>>]
    IN  [declaration |-> declaration,
         parameters |-> [i \in 1..Len(list) |->
                            ParameterSymbol(ParameterNames[i], list[i][2])],
         returnType |-> returnType,
         typeParameters |-> <<>>,
         symbol |-> [name |-> declaration.name,
                     declarations |-> IF overloaded THEN <<declaration, other>>
                                                    ELSE <<declaration>>]]

\* the signatures resolved
Signatures ==
    {Signature(kind, modifiers, overloaded, returnType, list) :
        kind \in DeclarationKinds, modifiers \in SUBSET {"async", "static"},
        overloaded \in BOOLEAN, returnType \in {"int", "Foo"}, list \in ParameterLists}

ResolvableSignatures ==
    {signature \in Signatures :
        /\ signature.declaration.modifiers \in Modifiers(signature.declaration.kind)
        /\ Len(signature.symbol.declarations) > 1
              => signature.declaration.kind # "ArrowFunction"}

\* undefined, where a declaration or a symbol is expected
NoDeclaration == [kind |-> "none"]

NoSymbol == [name |-> "none", declarations |-> <<>>]

\* getClassType(signature, typeChecker)
getClassType(signature) ==
    LET declaration == signature.declaration
    IN  IF declaration.kind = "ConstructSignature" THEN signature.returnType
        ELSE IF declaration.kind = "MethodSignature" THEN declaration.parent
        ELSE "none"

\* isInstanceMethod(declaration)
isInstanceMethod(declaration) ==
    IF declaration.kind = "ConstructSignature" THEN FALSE
    ELSE IF declaration.kind \in {"MethodSignature", "MethodDeclaration"}
    THEN "static" \notin declaration.modifiers
    ELSE FALSE

\* getDeclaredFunctionName(declaration, typeChecker)
getDeclaredFunctionName(declaration) ==
    IF declaration.kind \in {"ConstructSignature", "Constructor"} THEN "constructor"
    ELSE IF declaration.name # "none" THEN declaration.name
    ELSE "none"

\* getResolvedParameters that reads the parameters of the implementation of an
\* overloaded function
getResolvedParameters_ofImplementation(signature) ==
    LET declarations == signature.symbol.declarations
        declaration == IF \E k \in 1..Len(declarations) : declarations[k].body
                       THEN declarations[CHOOSE k \in 1..Len(declarations) : declarations[k].body]
                       ELSE signature.declaration
    IN  [i \in 1..Len(declaration.parameters) |->
            LET parameter == declaration.parameters[i]
            IN  [initializer |-> parameter.initializer,
                 name |-> parameter.name,
                 optional |-> parameter.questionToken,
                 type |-> "any",
                 symbol |-> ParameterSymbol(parameter.name, "any"),
                 variadic |-> parameter.dotDotDotToken]]

\* getResolvedParameters(signature, typeChecker)
getResolvedParameters(signature) ==
    LET declaration == signature.declaration
    IN  [i \in 1..Len(declaration.parameters) |->
            LET parameter == declaration.parameters[i]
                parameterSymbol == signature.parameters[i]
                parameterType == parameterSymbol.type
            IN  [initializer |-> parameter.initializer,
                 name |-> parameterSymbol.name,
                 optional |-> parameter.questionToken,
                 type |-> parameterType,
                 symbol |-> parameterSymbol,
                 variadic |-> parameter.dotDotDotToken]]

\* createResolvedFunctionFromSignature(signature, compilationContext, classType)
createResolvedFunctionFromSignature(signature, classType) ==
    LET returnType == signature.returnType
        declaration == signature.declaration
        ownDefinition == IF declaration.body THEN declaration ELSE NoDeclaration
        symbol == IF declaration.name # "none" THEN signature.symbol ELSE NoSymbol
        isOverloadPredicate(decl) == decl.body
        definition ==
            IF symbol # NoSymbol /\ Len(symbol.declarations) > 1
            THEN IF \E k \in 1..Len(symbol.declarations) :
                        isOverloadPredicate(symbol.declarations[k])
                 THEN symbol.declarations[
                          CHOOSE k \in 1..Len(symbol.declarations) :
                              /\ isOverloadPredicate(symbol.declarations[k])
                              /\ \A j \in 1..(k - 1) :
                                     ~isOverloadPredicate(symbol.declarations[j])]
                 ELSE ownDefinition
            ELSE ownDefinition
    IN  [async |-> "async" \in declaration.modifiers,
         classType |-> IF classType # "none" THEN classType ELSE getClassType(signature),
         declaration |-> declaration,
         definition |-> definition,
         functionName |-> getDeclaredFunctionName(declaration),
         instanceMethod |-> isInstanceMethod(declaration),
         parameters |-> getResolvedParameters(signature),
         returnType |-> returnType,
         symbol |-> symbol,
         typeParameters |-> signature.typeParameters]

\* the class types a caller passes as classType ("none": not passed)
PassedClassTypes == {"none", "Bar"}

\* the signature to resolve and the class type passed with it
SignatureInput(signature, classType) ==
    [signature |-> signature, classType |-> classType] @@ NoInput

\* the call of createResolvedFunctionFromSignature for the signature that is to
\* be resolved
ResolveSignature ==
    /\ last.op = "createResolvedFunctionFromSignature"
    /\ last.outcome = "pending"
    /\ last' = [resolved |-> createResolvedFunctionFromSignature(last.input.signature,
                                                                 last.input.classType)]
               @@ Step("createResolvedFunctionFromSignature", last.input, "returned",
                       NoDiagnostic, <<>>, NoValue)
    /\ UNCHANGED <<requiresGc, functions, mangled, llvmTypes, structTypes>>

----------------------------------------------------------------------------
(* ArrayClassReference.getLLVMType: the struct types of the arrays *)

\* the array types whose llvm type is requested
LayoutArrayTypes ==
    ArrayTypes \cup {"boolean[]", "Foo[]", "(Foo | null)[]", "int[][]", "(int[] | null)[]"}

\* llvm.StructType.create(context.llvmContext, name) and setBody: id is the
\* number llvm appends to the name to keep it unique in the context
StructType(name, id, body) == [name |-> name, id |-> id, body |-> body]

\* getLLVMType that looks the struct up under the declared element type,
\* nullable or not
getLLVMType_keyedByDeclaredType(type) ==
    LET elementType == getArrayElementType(type)
        input == [NoInput EXCEPT !.type = type]
        returned(id, registered) ==
            [registered |-> registered] @@
            Step("getLLVMType", input, "returned", NoDiagnostic, <<>>,
                 Value(Operand("struct", "class.Array", id), type))
    IN  IF elementType \in DOMAIN llvmTypes
        THEN /\ last' = returned(llvmTypes[elementType], llvmTypes)
             /\ UNCHANGED <<requiresGc, functions, mangled, llvmTypes, structTypes>>
        ELSE LET forwardDeclaration == StructType("class.Array", Cardinality(structTypes), <<>>)
                 registered == (elementType :> forwardDeclaration.id) @@ llvmTypes
                 llvmElementType == getLLVMArrayElementType(elementType)
             IN  /\ llvmTypes' = registered
                 /\ structTypes' = structTypes \cup
                        {[forwardDeclaration EXCEPT
                             !.body = <<getPointerTo(llvmElementType),
                                        getPointerTo(llvmElementType), "i32">>]}
                 /\ last' = returned(forwardDeclaration.id, registered)
                 /\ UNCHANGED <<requiresGc, functions, mangled>>

\* ArrayClassReference.getLLVMType(type, context); the step records the map
\* llvmTypes as it is when the element type of the body is computed
getLLVMType(type) ==
    LET declaredElementType == getArrayElementType(type)
        elementType == IF isMaybeObjectType(declaredElementType)
                       THEN getNonNullableType(declaredElementType)
                       ELSE declaredElementType
        input == [NoInput EXCEPT !.type = type]
        returned(id, registered) ==
            [registered |-> registered] @@
            Step("getLLVMType", input, "returned", NoDiagnostic, <<>>,
                 Value(Operand("struct", "class.Array", id), type))
    IN  IF elementType \in DOMAIN llvmTypes
        THEN /\ last' = returned(llvmTypes[elementType], llvmTypes)
             /\ UNCHANGED <<requiresGc, functions, mangled, llvmTypes, structTypes>>
        ELSE LET forwardDeclaration == StructType("class.Array", Cardinality(structTypes), <<>>)
                 registered == (elementType :> forwardDeclaration.id) @@ llvmTypes
                 llvmElementType == getLLVMArrayElementType(elementType)
             IN  /\ llvmTypes' = registered
                 /\ structTypes' = structTypes \cup
                        {[forwardDeclaration EXCEPT
                             !.body = <<getPointerTo(llvmElementType),
                                        getPointerTo(llvmElementType), "i32">>]}
                 /\ last' = returned(forwardDeclaration.id, registered)
                 /\ UNCHANGED <<requiresGc, functions, mangled>>

----------------------------------------------------------------------------
(* The compilation unit: generation of its constructs and output of its module *)

MaxUnitSteps == 3

\* the module output for a unit: nothing before the unit is emitted
NoOutput == [emitted |-> FALSE, functions |-> {}, instructions |-> <<>>]

\* a unit whose generation starts: generating, no construct generated yet, no
\* failure raised, nothing in the module and nothing output
NewUnit == [status |-> "generating", steps |-> 0, failures |-> 0,
            instructions |-> <<>>, output |-> NoOutput]

\* the unit after the generation of one construct: the instructions of the
\* construct are in the module; a failure propagates to the unit, whose
\* generation is aborted
afterConstruct(step) ==
    [unit EXCEPT !.steps = @ + 1,
                 !.instructions = @ \o step.emitted,
                 !.failures = IF step.outcome = "threw" THEN @ + 1 ELSE @,
                 !.status = IF step.outcome = "threw" THEN "aborted" ELSE @]

\* the calls and the prefix unary expressions of the units generated
UnitFunctions == {"max3", "main", "broken3"}

UnitUnaryExpressions == {<<"++", "int">>, <<"-", "number">>, <<"-", "string">>}

\* the generation of a call of a speedyjs function as next construct of the unit
generateCall(functionName) ==
    /\ unit.status = "generating"
    /\ unit.steps < MaxUnitSteps
    /\ invokeFunction(functionName, <<"int", "int", "int">>)
    /\ unit' = afterConstruct(last')

\* the generation of a prefix unary expression as next construct of the unit
generateUnary(expression) ==
    /\ unit.status = "generating"
    /\ unit.steps < MaxUnitSteps
    /\ generate(expression[1], expression[2], expression[2])
    /\ unit' = afterConstruct(last')

\* the output of the module of a unit whose generation has ended without failure
emit ==
    /\ unit.status = "generating"
    /\ unit' = [unit EXCEPT !.status = "emitted",
                            !.output = [emitted |-> TRUE, functions |-> functions,
                                        instructions |-> unit.instructions]]
    /\ last' = Step("emit", NoInput, "returned", NoDiagnostic, <<>>, NoValue)
    /\ UNCHANGED <<requiresGc, functions, mangled, llvmTypes, structTypes>>

----------------------------------------------------------------------------
(* LogUnknownTransformVisitor: the visitor of the nodes of a source file *)

MaxChildren == 2

\* node kinds the visitor has a visit method for
VisitedKinds == {"Block", "PrefixUnaryExpression", "Identifier", "FunctionType"}

\* node kinds the visitor has no visit method for
UnknownKinds == {"WithStatement", "ClassExpression"}

\* a ts.Node with its children
Node(kind, children) == [kind |-> kind, children |-> children]

\* the nodes visited: a node of any kind with up to MaxChildren leaves
VisitedNodes ==
    {Node(kind, [i \in 1..n |-> Node(kinds[i], <<>>)]) :
        kind \in VisitedKinds \cup UnknownKinds,
        n \in 0..MaxChildren,
        kinds \in [1..MaxChildren -> VisitedKinds \cup UnknownKinds]}

\* the result of a visit: the diagnostic raised, the kinds of the nodes visited
\* in order, and the messages logged
Visit(diag, visited, log) == [diag |-> diag, visited |-> visited, log |-> log]

RECURSIVE visitNode(_)
RECURSIVE visitChildren(_, _)

\* context.visitEachChild(node): visits the children of the node in order
visitEachChild(node) == visitChildren(node.children, 1)

\* the visits of the children of visitEachChild from the i-th on
visitChildren(children, i) ==
    IF i > Len(children) THEN Visit(NoDiagnostic, <<>>, <<>>)
    ELSE LET child == visitNode(children[i])
             others == visitChildren(children, i + 1)
         IN  Visit(NoDiagnostic, child.visited \o others.visited, child.log \o others.log)

\* LogUnknownTransformVisitor.visitFunctionType: the node as it is
visitFunctionType(functionType) == Visit(NoDiagnostic, <<>>, <<>>)

\* LogUnknownTransformVisitor.fallback(node, context)
fallback(node) ==
    LET children == visitEachChild(node)
    IN  Visit(NoDiagnostic, children.visited, <<node.kind>> \o children.log)

\* the visit of a node: the visit method of its kind, fallback for a kind
\* without visit method
visitNode(node) ==
    LET visit == IF node.kind \notin VisitedKinds THEN fallback(node)
                 ELSE IF node.kind = "FunctionType" THEN visitFunctionType(node)
                 ELSE visitEachChild(node)
    IN  Visit(visit.diag, <<node.kind>> \o visit.visited, visit.log)

\* the node that is to be visited
NodeInput(node) == [node |-> node] @@ NoInput

\* the visit of the node that is to be visited
VisitNode ==
    /\ last.op = "visit"
    /\ last.outcome = "pending"
    /\ LET visit == visitNode(last.input.node)
       IN  last' = [visited |-> visit.visited, log |-> visit.log] @@
                   Step("visit", last.input,
                        IF visit.diag # NoDiagnostic THEN "threw" ELSE "returned",
                        visit.diag, <<>>, NoValue)
    /\ UNCHANGED <<requiresGc, functions, mangled, llvmTypes, structTypes>>

----------------------------------------------------------------------------
(* speedyjs-compiler-options.ts: initialization of the compiler options *)

MaxProvided == 2

\* the defaults documented at the options of SpeedyJSCompilerOptions (@default)
documentedDefaults ==
    [unsafe |-> TRUE,
     emitLLVM |-> FALSE,
     saveWast |-> FALSE,
     saveBc |-> FALSE,
     binaryenOpt |-> TRUE,
     initialMemory |-> 16 * 1024 * 1024,
     totalStack |-> 5 * 1024 * 1024,
     globalBase |-> 1024,
     disableHeapNukeOnExit |-> TRUE,
     exposeGc |-> FALSE,
     exportGc |-> FALSE,
     optimizationLevel |-> "3"]

\* const defaults of initializeCompilerOptions
defaults ==
    [unsafe |-> TRUE,
     emitLLVM |-> FALSE,
     saveWast |-> FALSE,
     binaryenOpt |-> FALSE,
     initialMemory |-> 16 * 1024 * 1024,
     totalStack |-> 5 * 1024 * 104,
     globalBase |-> 8,
     saveBc |-> FALSE,
     disableHeapNukeOnExit |-> FALSE,
     exposeGc |-> FALSE,
     exportGc |-> FALSE,
     optimizationLevel |-> "2",
     wasmFileWriter |-> "DefaultWasmFileWriter"]

\* the options initializeCompilerOptions assigns without regard to their value
ForcedOptions == {"strictNullChecks", "noImplicitAny", "noImplicitReturns"}

\* the keys of the compiler options the initialization reads or writes
OptionKeys == DOMAIN defaults \cup ForcedOptions \cup {"lib"}

\* two values a caller provides for an option
ProvidedValues(key) ==
    CASE key \in {"initialMemory", "totalStack", "globalBase"} -> <<0, 65536>>
      [] key = "optimizationLevel" -> <<"0", "z">>
      [] key = "wasmFileWriter" -> <<"DefaultWasmFileWriter", "CustomWasmFileWriter">>
      [] key = "lib" -> <<<<>>, <<"lib.es5.d.ts">>>>
      [] OTHER -> <<FALSE, TRUE>>

\* the uninitialized options passed: an option is the empty set when it is
\* absent (undefined) and the set of its value when it is provided; at most
\* MaxProvided options are provided
UninitializedOptions ==
    UNION {{[key \in OptionKeys |->
                IF key \in provided THEN {ProvidedValues(key)[choice[key]]} ELSE {}] :
              choice \in [provided -> {1, 2}]} :
           provided \in {keys \in SUBSET OptionKeys : Cardinality(keys) <= MaxProvided}}

\* initializeCompilerOptions that gives the default to every option whose value
\* is falsy (compilerOptions[key] || default)
initializeCompilerOptions_falsyDefaults(compilerOptions) ==
    LET falsy(key) ==
            \/ compilerOptions[key] = {}
            \/ key \in {"initialMemory", "totalStack", "globalBase"} /\ compilerOptions[key] = {0}
            \/ key \notin {"initialMemory", "totalStack", "globalBase", "optimizationLevel",
                            "wasmFileWriter"} /\ compilerOptions[key] = {FALSE}
        initialized ==
            [key \in OptionKeys |->
                IF key \in DOMAIN defaults /\ falsy(key)
                THEN {defaults[key]}
                ELSE compilerOptions[key]]
    IN  [initialized EXCEPT !.strictNullChecks = {TRUE},
                            !.noImplicitAny = {TRUE},
                            !.noImplicitReturns = {TRUE},
                            !.lib = IF @ = {} THEN {<<"lib.es2015.d.ts">>} ELSE @]

\* initializeCompilerOptions(compilerOptions)
initializeCompilerOptions(compilerOptions) ==
    LET initialized ==
            [key \in OptionKeys |->
                IF key \in DOMAIN defaults /\ compilerOptions[key] = {}
                THEN {defaults[key]}
                ELSE compilerOptions[key]]
    IN  [initialized EXCEPT !.strictNullChecks = {TRUE},
                            !.noImplicitAny = {TRUE},
                            !.noImplicitReturns = {TRUE},
                            !.lib = IF @ = {} THEN {<<"lib.es2015.d.ts">>} ELSE @]

\* the options that are to be initialized
OptionsInput(compilerOptions) == [compilerOptions |-> compilerOptions] @@ NoInput

\* the call of initializeCompilerOptions for the options that are to be
\* initialized
InitializeOptions ==
    /\ last.op = "initializeCompilerOptions"
    /\ last.outcome = "pending"
    /\ LET options == initializeCompilerOptions(last.input.compilerOptions)
       IN  last' = [options |-> options, first |-> options, applications |-> 1] @@
                   Step("initializeCompilerOptions", last.input, "returned", NoDiagnostic,
                        <<>>, NoValue)
    /\ UNCHANGED <<requiresGc, functions, mangled, llvmTypes, structTypes>>

\* a second call of initializeCompilerOptions, for the options the first call
\* has returned
InitializeOptionsAgain ==
    /\ last.op = "initializeCompilerOptions"
    /\ last.outcome = "returned"
    /\ last.applications = 1
    /\ last' = [last EXCEPT !.options = initializeCompilerOptions(last.options),
                            !.applications = 2]
    /\ UNCHANGED <<requiresGc, functions, mangled, llvmTypes, structTypes>>

----------------------------------------------------------------------------
(* ObjectIndexReference: the reference to an element of an object (x[10]) *)

\* new ObjectIndexReference(type, object, index, getter, setter)
ObjectIndexReference(type, object, index, getter, setter) ==
    [type |-> type, object |-> object, index |-> index, getter |-> getter,
     setter |-> setter]

NoIndexReference == ObjectIndexReference("none", NoOperand, NoOperand, "none", "none")

\* the types of the elements referenced
IndexedElementTypes == PrimitiveTypes \cup {"Foo"}

\* the objects indexed and the values used as index, as generated IR
IndexedObjects == {Operand("x", "Array*", 0), Operand("y", "Array*", 0)}

IndexValues == {Operand("const", "i32", 0), Operand("const", "i32", 1), Operand("i", "i32", 0)}

\* the references to elements that are generated: the getter and the setter
\* are the functions of the element type of the object
IndexReferences ==
    {ObjectIndexReference(type, object, index, "get", "set") :
        type \in IndexedElementTypes, object \in IndexedObjects, index \in IndexValues}

\* a value that is assigned: its IR when it is already generated, or the
\* reference to the element it reads
AssignedValue(ir, type, reference) == [ir |-> ir, type |-> type, reference |-> reference]

\* the values assigned to an element of the given type: a constant, a variable
\* and the element y[1]
AssignedValues(type) ==
    {AssignedValue(Operand("const", toLLVMType(type), 0), type, NoIndexReference),
     AssignedValue(Operand("v", toLLVMType(type), 0), type, NoIndexReference),
     AssignedValue(NoOperand, type,
                   ObjectIndexReference(type, Operand("y", "Array*", 0),
                                        Operand("const", "i32", 1), "get", "set"))}

\* invoke(fn, args, returnType, context) of util/functions: the call of the
\* function with the arguments in the given order
invoke(fn, args, returnType) ==
    [ir |-> Operand("call", returnType, 0),
     emitted |-> <<Instr("call", fn, args, <<>>)>>]

\* ObjectIndexReference.generateIR(context)
ObjectIndexReference_generateIR(reference) ==
    invoke(reference.getter, <<reference.object, reference.index>>,
           toLLVMType(reference.type))

\* ObjectIndexReference.getValue(context)
ObjectIndexReference_getValue(reference) ==
    LET call == ObjectIndexReference_generateIR(reference)
    IN  [value |-> Value(call.ir, reference.type), emitted |-> call.emitted]

\* value.generateIR(context) of the value that is assigned
AssignedValue_generateIR(value) ==
    IF value.reference # NoIndexReference
    THEN ObjectIndexReference_generateIR(value.reference)
    ELSE [ir |-> value.ir, emitted |-> <<>>]

\* generateAssignmentIR that passes the value first to the setter
ObjectIndexReference_generateAssignmentIR_valueFirst(reference, value) ==
    LET valueToSet == AssignedValue_generateIR(value)
        objectPtr == reference.object
        indexValue == reference.index
    IN  [ir |-> NoOperand,
         emitted |-> valueToSet.emitted \o
                     invoke(reference.setter, <<valueToSet.ir, objectPtr, indexValue>>,
                            "void").emitted]

\* ObjectIndexReference.generateAssignmentIR(value, context)
ObjectIndexReference_generateAssignmentIR(reference, value) ==
    LET valueToSet == AssignedValue_generateIR(value)
        objectPtr == reference.object
        indexValue == reference.index
    IN  [ir |-> NoOperand,
         emitted |-> valueToSet.emitted \o
                     invoke(reference.setter, <<objectPtr, indexValue, valueToSet.ir>>,
                            "void").emitted]

\* ObjectIndexReference.dereference(context)
ObjectIndexReference_dereference(reference) == ObjectIndexReference_getValue(reference)

\* ObjectIndexReference.castImplicit(type, context)
ObjectIndexReference_castImplicit(reference, type) ==
    LET dereferenced == ObjectIndexReference_dereference(reference)
        casted == castImplicit(dereferenced.value, type)
    IN  [value |-> casted.value, emitted |-> dereferenced.emitted \o casted.emitted]

\* the reference a step works on, the value it assigns and the type it casts to
IndexInput(reference, value, type) ==
    [reference |-> reference, value |-> value] @@ [NoInput EXCEPT !.resultType = type]

\* a read of the element: the reference is generated as value
readElement(reference) ==
    /\ LET read == ObjectIndexReference_getValue(reference)
       IN  last' = Step("read", IndexInput(reference, NoValue, "none"), "returned",
                        NoDiagnostic, read.emitted, read.value)
    /\ UNCHANGED <<requiresGc, functions, mangled, llvmTypes, structTypes>>

\* an assignment to the element
assignElement(reference, value) ==
    /\ LET assignment == ObjectIndexReference_generateAssignmentIR(reference, value)
       IN  last' = Step("assign", IndexInput(reference, value, "none"), "returned",
                        NoDiagnostic, assignment.emitted, NoValue)
    /\ UNCHANGED <<requiresGc, functions, mangled, llvmTypes, structTypes>>

\* an implicit cast of the reference to the given type
castElement(reference, type) ==
    /\ LET cast == ObjectIndexReference_castImplicit(reference, type)
       IN  last' = Step("castImplicit", IndexInput(reference, NoValue, type), "returned",
                        NoDiagnostic, cast.emitted, cast.value)
    /\ UNCHANGED <<requiresGc, functions, mangled, llvmTypes, structTypes>>

----------------------------------------------------------------------------
(* isPrime-spdy.ts: the benchmark function isPrime *)

MaxValue == 64

\* the arguments isPrime is called with
PrimeValues == (0 - 3)..MaxValue

\* Math.sqrt(value as number) as int, for a value that is not negative: the
\* square root with its fraction cut off
sqrtAsInt(value) == CHOOSE r \in 0..value : r * r <= value /\ value < (r + 1) * (r + 1)

\* the for loop of isPrime from the given i on: false when an i divides the
\* value, true when the loop ends
RECURSIVE isPrimeLoop(_, _)
isPrimeLoop(value, i) ==
    IF i <= sqrtAsInt(value)
    THEN IF value % i = 0 THEN FALSE ELSE isPrimeLoop(value, i + 1)
    ELSE TRUE

\* isPrime(value)
isPrime(value) ==
    IF value <= 2 THEN FALSE ELSE isPrimeLoop(value, 2)

\* the argument of the call
PrimeInput(value) == [value |-> value] @@ NoInput

\* the call of isPrime for the value that is to be tested
CallIsPrime ==
    /\ last.op = "isPrime"
    /\ last.outcome = "pending"
    /\ last' = [result |-> isPrime(last.input.value)] @@
               Step("isPrime", last.input, "returned", NoDiagnostic, <<>>, NoValue)
    /\ UNCHANGED <<requiresGc, functions, mangled, llvmTypes, structTypes>>

----------------------------------------------------------------------------
(* Specifications *)

\* a new code generation context: nothing generated, no collector required
Init ==
    /\ requiresGc = FALSE
    /\ functions = {}
    /\ mangled = {}
    /\ last = Step("none", NoInput, "none", NoDiagnostic, <<>>, NoValue)
    /\ llvmTypes = <<>>
    /\ structTypes = {}
    /\ unit = NewUnit

\* function resolution and built-ins: calls of speedyjs functions, accesses to
\* the Math object and constructions of arrays from raw buffers
Next ==
    \/ \E type \in ArrayTypes : fromCArray(type) /\ UNCHANGED unit
    \/ \E functionName \in Declarations, types \in ParameterTypes :
          invokeFunction(functionName, types) /\ UNCHANGED unit
    \/ \E symbolName \in MathMethods \cup MathProperties :
          getProperty(symbolName) /\ UNCHANGED unit
    \/ \E lhsType \in NumericTypes, rhsType \in NumericTypes :
          pow(lhsType, rhsType, "number") /\ UNCHANGED unit

Spec == Init /\ [][Next]_vars

\* the constructions of arrays
NextArray ==
    \/ \E type \in ArrayTypes, elements \in ArrayLiterals :
          fromLiteral(type, elements) /\ UNCHANGED unit
    \/ \E type \in ArrayTypes : fromCArray(type) /\ UNCHANGED unit
    \/ \E type \in ArrayTypes : getConstructor(type) /\ UNCHANGED unit

SpecArray == Init /\ [][NextArray]_vars

\* the generation of prefix unary expressions
NextUnary ==
    \E operator \in PrefixUnaryOperators :
        \E operandType \in OperandTypes(operator), resultType \in PrimitiveTypes :
            generate(operator, operandType, resultType) /\ UNCHANGED unit

SpecUnary == Init /\ [][NextUnary]_vars

\* a new code generation context that is about to generate one numeric literal
InitLiteral ==
    /\ requiresGc = FALSE
    /\ functions = {}
    /\ mangled = {}
    /\ \E text \in LiteralTexts, type \in LiteralTypes :
          last = Step("FirstLiteralToken", LiteralInput(text, type), "pending",
                      NoDiagnostic, <<>>, NoValue)
    /\ llvmTypes = <<>>
    /\ structTypes = {}
    /\ unit = NewUnit

\* the generation of numeric literals
NextLiteral == FirstLiteralToken_generate /\ UNCHANGED unit

SpecLiteral == InitLiteral /\ [][NextLiteral]_vars

\* a compilation that is about to resolve the function of one signature
InitResolve ==
    /\ requiresGc = FALSE
    /\ functions = {}
    /\ mangled = {}
    /\ \E signature \in ResolvableSignatures, classType \in PassedClassTypes :
          last = Step("createResolvedFunctionFromSignature",
                      SignatureInput(signature, classType), "pending",
                      NoDiagnostic, <<>>, NoValue)
    /\ llvmTypes = <<>>
    /\ structTypes = {}
    /\ unit = NewUnit

\* the resolution of signatures
NextResolve == ResolveSignature /\ UNCHANGED unit

SpecResolve == InitResolve /\ [][NextResolve]_vars

\* the requests for the llvm types of arrays
NextTypes == \E type \in LayoutArrayTypes : getLLVMType(type) /\ UNCHANGED unit

SpecTypes == Init /\ [][NextTypes]_vars

\* the generation of a compilation unit, construct by construct, and its output
NextUnit ==
    \/ \E functionName \in UnitFunctions : generateCall(functionName)
    \/ \E expression \in UnitUnaryExpressions : generateUnary(expression)
    \/ emit

SpecUnit == Init /\ [][NextUnit]_vars

\* a compilation that is about to visit one node
InitVisit ==
    /\ requiresGc = FALSE
    /\ functions = {}
    /\ mangled = {}
    /\ \E node \in VisitedNodes :
          last = Step("visit", NodeInput(node), "pending", NoDiagnostic, <<>>, NoValue)
    /\ llvmTypes = <<>>
    /\ structTypes = {}
    /\ unit = NewUnit

\* the visits of nodes
NextVisit == VisitNode /\ UNCHANGED unit

SpecVisit == InitVisit /\ [][NextVisit]_vars

\* a compiler that is about to initialize its options
InitOptions ==
    /\ requiresGc = FALSE
    /\ functions = {}
    /\ mangled = {}
    /\ \E compilerOptions \in UninitializedOptions :
          last = Step("initializeCompilerOptions", OptionsInput(compilerOptions), "pending",
                      NoDiagnostic, <<>>, NoValue)
    /\ llvmTypes = <<>>
    /\ structTypes = {}
    /\ unit = NewUnit

\* the initialization of compiler options
NextOptions ==
    \/ InitializeOptions /\ UNCHANGED unit
    \/ InitializeOptionsAgain /\ UNCHANGED unit

SpecOptions == InitOptions /\ [][NextOptions]_vars

\* the uses of references to elements
NextIndex ==
    \/ \E reference \in IndexReferences : readElement(reference) /\ UNCHANGED unit
    \/ \E reference \in IndexReferences :
          \E value \in AssignedValues(reference.type) :
              assignElement(reference, value) /\ UNCHANGED unit
    \/ \E reference \in IndexReferences, type \in PrimitiveTypes :
          castElement(reference, type) /\ UNCHANGED unit

SpecIndex == Init /\ [][NextIndex]_vars

\* a program that is about to call isPrime
InitPrime ==
    /\ requiresGc = FALSE
    /\ functions = {}
    /\ mangled = {}
    /\ \E value \in PrimeValues :
          last = Step("isPrime", PrimeInput(value), "pending", NoDiagnostic, <<>>, NoValue)
    /\ llvmTypes = <<>>
    /\ structTypes = {}
    /\ unit = NewUnit

\* the calls of isPrime
NextPrime == CallIsPrime /\ UNCHANGED unit

SpecPrime == InitPrime /\ [][NextPrime]_vars

----------------------------------------------------------------------------
(* Properties of the garbage collector flag (SpecArray) *)

ArrayConstructions == {"fromLiteral", "fromCArray", "getConstructor"}

\* C1: within one compilation the requiresGc flag never changes from true to
\* false, whatever sequence of fromLiteral, fromCArray and getConstructor is
\* generated; a write while the flag is true leaves it true.
C1_GcNeverReverts == [][requiresGc => requiresGc']_vars

\* C1 witness: getConstructor wrote the flag after an earlier construction had
\* declared a constructor, and the flag reads true.
C1_Witness ==
    /\ last.op = "getConstructor"
    /\ functions # {}
    /\ requiresGc

\* C2: every array construction that returns (fromLiteral, fromCArray or
\* getConstructor) leaves requiresGc true.
C2_ConstructionSetsGc ==
    (last.op \in ArrayConstructions /\ last.outcome = "returned") => requiresGc

\* C2 witness: the first construction of a compilation was a getConstructor
\* (nothing is declared in the module) and the flag is true.
C2_Witness ==
    /\ last.op = "getConstructor"
    /\ last.outcome = "returned"
    /\ functions = {}
    /\ requiresGc

----------------------------------------------------------------------------
(* Properties of function specialization (Spec) *)

\* the mangled name of the constructor of an array type
ConstructorName(type) == mangleMethodName(type, "constructor", <<type>>)

\* the mangled name of the function called by the last generated call
InvokedName ==
    mangleFunctionName(ResolvedFunction(last.input.name, "none", isAsync(last.input.name),
                                        last.input.types), last.input.types)

\* the (enclosing type, function identity, ordered parameter types) of a mangling
Triple(m) == <<m.classType, m.functionName, m.types>>

\* C3: the module holds at most one function per mangled name, and a generation
\* whose mangled name already exists in the module adds no function to it.
C3_OneFunctionPerName ==
    /\ [](\A f, g \in functions : f.name = g.name => f = g)
    /\ [][ /\ (last'.op = "fromCArray"
                 /\ getFunction(functions, ConstructorName(last'.input.type)) # {})
              => functions' = functions
           /\ (last'.op = "invokeFunction" /\ getFunction(functions, InvokedName') # {})
              => functions' = functions ]_vars

\* C3 witness: max3 is called with (int, int, int) when clamp3 for the same
\* types, whose body calls max3, has been generated: the call reuses the
\* function of that name.
C3_Witness ==
    /\ last.op = "invokeFunction"
    /\ last.input.name = "max3"
    /\ last.input.types = <<"int", "int", "int">>
    /\ last.outcome = "returned"
    /\ getFunction(functions, <<"", "clamp3", "i", "i", "i">>) # {}
    /\ Cardinality(getFunction(functions, <<"", "max3", "i", "i", "i">>)) = 1

----------------------------------------------------------------------------
(* Properties of array literals (SpecArray) *)

----------------------------------------------------------------------------
(* Properties of the Math object (Spec) *)

SupportedMathMethods == {"pow", "sqrt", "log", "sin", "cos", "max"}

\* C7: MathObjectReference.pow passes base and exponent as floating point
\* numbers, each operand that is not of the number type being converted before
\* the call, and the called method has the readnone attribution.
C7_PowPromotesOperands ==
    last.op = "pow" =>
        LET emitted == last.emitted
            call == emitted[Len(emitted)]
            conversions == {emitted[i].args[1].ref : i \in 1..(Len(emitted) - 1)}
        IN  /\ call.op = "call"
            /\ \A i \in 1..(Len(emitted) - 1) : emitted[i].op = "sitofp"
            /\ call.args = <<Operand("lhs", "double", 0), Operand("rhs", "double", 0)>>
            /\ conversions = {<<"lhs", "rhs">>[i] : i \in {j \in 1..2 : last.input.types[j] # "number"}}
            /\ "readnone" \in last.reference.properties
            /\ \A f \in getFunction(functions, call.fn) : "readnone" \in f.attrs
            /\ getFunction(functions, call.fn) # {}

\* C7 witness: pow has been called with two operands of type int.
C7_Witness ==
    /\ last.op = "pow"
    /\ last.input.types = <<"int", "int">>
    /\ Len(last.emitted) = 3

\* C8: an access to a member of Math that is not one of the methods pow, sqrt,
\* log, sin, cos, max or the property PI fails with the UnsupportedBuiltIn
\* diagnostic that names Math and the member, and returns no reference.
C8_UnsupportedMathMember ==
    ((last.op = "createFunctionFor" /\ last.input.name \notin SupportedMathMethods)
        \/ (last.op = "createPropertyReference" /\ last.input.name # "PI"))
    => /\ last.outcome = "threw"
       /\ last.diag.code = "UnsupportedBuiltIn"
       /\ last.diag.object = "Math"
       /\ last.diag.detail = last.input.name
       /\ last.value = NoValue
       /\ last.reference = NoReference

\* C8 witness: the method frobnicate of Math has been accessed.
C8_Witness ==
    /\ last.op = "createFunctionFor"
    /\ last.input.name = "frobnicate"
    /\ last.outcome = "threw"

\* C9: every reference to a supported Math method is a reference to a method of
\* the runtime created with readnone and noUnwind, and a Math function in the
\* module is a declaration without body that has both attributes.
C9_MathMethodsPure ==
    /\ (last.reference.member \in SupportedMathMethods)
          => /\ last.reference.runtime
             /\ {"readnone", "noUnwind"} \subseteq last.reference.properties
    /\ (last.op = "createFunctionFor" /\ last.input.name \in SupportedMathMethods)
          => last.reference.member = last.input.name
    /\ \A f \in functions :
          f.name[1] = "Math" => (~f.defined /\ {"readnone", "noUnwind"} \subseteq f.attrs)

\* C9 witness: Math.sqrt has been accessed after pow was declared in the module.
C9_Witness ==
    /\ last.op = "createFunctionFor"
    /\ last.input.name = "sqrt"
    /\ last.outcome = "returned"
    /\ \E f \in functions : f.name[1] = "Math"

----------------------------------------------------------------------------
(* Properties of prefix unary expressions (SpecUnary) *)

\* C10: a prefix unary expression for which no instruction is selected (-, ++
\* or -- on an operand that is neither integer-like nor number-like, + on an
\* operand that is not integer-like, number-like or boolean-like, or an
\* operator other than !, -, --, +, ++, ~) fails with the UnsupportedOperation
\* diagnostic that carries the operator and the printed operand type; it
\* returns no value.
C10_UnsupportedUnaryFails ==
    LET operator == last.input.operator
        flags == typeFlags(last.input.type)
        unsupported ==
            \/ operator \in {"-", "++", "--"} /\ flags \cap {"IntLike", "NumberLike"} = {}
            \/ operator = "+" /\ flags \cap {"IntLike", "NumberLike", "BooleanLike"} = {}
            \/ operator \notin {"!", "-", "--", "+", "++", "~"}
    IN  (last.op = "generate" /\ unsupported)
        => /\ last.outcome = "threw"
           /\ last.diag.code = "UnsupportedOperation"
           /\ last.diag.node = operator
           /\ last.diag.detail = typeToString(last.input.type)
           /\ last.value = NoValue

\* C10 witness: the negation of an operand of type string has been generated.
C10_Witness ==
    /\ last.op = "generate"
    /\ last.input.operator = "-"
    /\ last.input.type = "string"
    /\ last.outcome = "threw"

\* the positions of the instructions of the last step that have one of the ops
Emitted(ops) == {i \in 1..Len(last.emitted) : last.emitted[i].op \in ops}

\* C11: for unary -, ++ and -- the instruction is chosen from the static type
\* of the operand alone: an integer-like operand gets exactly one integer
\* instruction (neg, add 1, sub 1) and no floating point one, a number-like
\* operand that is not integer-like gets exactly one floating point instruction
\* (fneg, fadd 1.0, fsub 1.0) and no integer one.
C11_InstructionByOperandType ==
    LET operator == last.input.operator
        flags == typeFlags(last.input.type)
        intOp == CASE operator = "-" -> "neg" [] operator = "++" -> "add" [] OTHER -> "sub"
        floatOp == CASE operator = "-" -> "fneg" [] operator = "++" -> "fadd" [] OTHER -> "fsub"
        operands(ty) == IF operator = "-" THEN <<Operand("x", ty, 0)>>
                        ELSE <<Operand("x", ty, 0), Operand("const", ty, 1)>>
    IN  (last.op = "generate" /\ operator \in {"-", "++", "--"})
        => /\ "IntLike" \in flags
                => /\ Cardinality(Emitted({intOp})) = 1
                   /\ Emitted({floatOp}) = {}
                   /\ \A i \in Emitted({intOp}) : last.emitted[i].args = operands("i32")
                   /\ last.value.ir.ref = intOp
           /\ ("NumberLike" \in flags /\ "IntLike" \notin flags)
                => /\ Cardinality(Emitted({floatOp})) = 1
                   /\ Emitted({intOp}) = {}
                   /\ \A i \in Emitted({floatOp}) : last.emitted[i].args = operands("double")
                   /\ last.value.ir.ref = floatOp
           /\ Cardinality(Emitted({intOp, floatOp})) <= 1

\* C11 witness: -- has been generated for an operand of type number in an
\* expression of type int.
C11_Witness ==
    /\ last.op = "generate"
    /\ last.input.operator = "--"
    /\ last.input.type = "number"
    /\ last.input.resultType = "int"
    /\ Emitted({"fsub"}) # {}

\* C12: unary plus returns its operand in the type of the expression: the value
\* has the result type, converted when the operand has another type; when the
\* implicit cast is not allowed (not the same type and not integer-like to
\* number-like, in particular number-like to integer-like) generation fails and
\* no value is returned.
C12_PlusCastsImplicitly ==
    LET flags == typeFlags(last.input.type)
        resultFlags == typeFlags(last.input.resultType)
        allowed == \/ last.input.type = last.input.resultType
                   \/ "IntLike" \in flags /\ "NumberLike" \in resultFlags
    IN  (last.op = "generate" /\ last.input.operator = "+")
        => /\ last.outcome = "returned"
                => /\ last.value.type = last.input.resultType
                   /\ last.value.ir.ty = toLLVMType(last.input.resultType)
                   /\ last.input.type # last.input.resultType => Emitted({"sitofp"}) # {}
           /\ ~allowed => (last.outcome = "threw" /\ last.value = NoValue)
           /\ ("NumberLike" \in flags /\ "IntLike" \in resultFlags) => last.outcome = "threw"

\* C12 witness: unary plus on an operand of type number in an expression of
\* type int has failed.
C12_Witness ==
    /\ last.op = "generate"
    /\ last.input.operator = "+"
    /\ last.input.type = "number"
    /\ last.input.resultType = "int"
    /\ last.outcome = "threw"

\* C20: a prefix ++ or -- that is generated stores its result, the operand plus
\* or minus one, into its operand exactly once and returns that result; the
\* operators !, -, + and ~ store nothing, and a failing ++ or -- stores nothing.
C20_IncrementAssignsOnce ==
    LET operator == last.input.operator
        stores == Emitted({"store"})
        target == Operand("x", getPointerTo(toLLVMType(last.input.type)), 0)
    IN  last.op = "generate"
        => /\ (operator \in {"++", "--"} /\ last.outcome = "returned")
                => /\ stores = {Len(last.emitted)}
                   /\ last.emitted[Len(last.emitted)].args = <<last.value.ir, target>>
                   /\ last.value.ir.ref \in (IF operator = "++" THEN {"add", "fadd"}
                                                               ELSE {"sub", "fsub"})
                   /\ \A i \in Emitted({"add", "fadd", "sub", "fsub"}) :
                         /\ last.emitted[i].args[1].ref = "x"
                         /\ last.emitted[i].args[2].ref = "const"
                         /\ last.emitted[i].args[2].n = 1
           /\ (operator \notin {"++", "--"} \/ last.outcome = "threw") => stores = {}

\* C20 witness: ++ has been generated for an operand of type int.
C20_Witness ==
    /\ last.op = "generate"
    /\ last.input.operator = "++"
    /\ last.input.type = "int"
    /\ last.outcome = "returned"
    /\ Emitted({"store"}) # {}

----------------------------------------------------------------------------
(* Properties of numeric literals (SpecLiteral) *)

\* the literal fits its resolved type: an integer in the range of 32 bits for
\* an integer-like type, any number for a number-like type
LiteralFits(text, type) ==
    \/ "IntLike" \in typeFlags(type) /\ text.tenths = 0 /\ text.hi < 2^15
    \/ "NumberLike" \in typeFlags(type) /\ "IntLike" \notin typeFlags(type)

\* C13: a numeric literal that does not fit its resolved type (an integer-like
\* type and a token that is out of range or not integral, or a type that is
\* neither integer-like nor number-like) fails with a diagnostic and produces no
\* constant; a literal that fits yields the integer constant or the floating
\* point constant of its token.
C13_AsStated ==
    (last.op = "FirstLiteralToken" /\ last.outcome # "pending")
    => LET text == last.input.text
           type == last.input.type
       IN  IF LiteralFits(text, type)
           THEN /\ last.outcome = "returned"
                /\ last.value.ir.ref = "const"
                /\ last.value.ir =
                       (IF "IntLike" \in typeFlags(type)
                        THEN Operand("const", "i32", text.hi * 2^16 + text.lo)
                        ELSE Operand("const", "double", text))
           ELSE /\ last.outcome = "threw"
                /\ last.diag # NoDiagnostic
                /\ last.value = NoValue

----------------------------------------------------------------------------
(* Properties of resolved functions (SpecResolve) *)

\* C14: the resolved function of a signature has exactly one parameter per
\* parameter of the declaration of the signature, in the order of the
\* declaration; entry i has the name and the resolved type of parameter i of the
\* signature, and the optional flag, the variadic flag and the default value
\* expression of the declared parameter i; the return type is the return type of
\* the signature. The list is that of the declaration of the signature also
\* when the function is overloaded and another declaration is its definition.
C14_ParametersOfSignature ==
    (last.op = "createResolvedFunctionFromSignature" /\ last.outcome = "returned")
    => LET signature == last.input.signature
           declared == signature.declaration.parameters
           resolved == last.resolved
       IN  /\ Len(resolved.parameters) = Len(declared)
           /\ \A i \in 1..Len(declared) :
                 /\ resolved.parameters[i].name = signature.parameters[i].name
                 /\ resolved.parameters[i].name = declared[i].name
                 /\ resolved.parameters[i].type = signature.parameters[i].type
                 /\ resolved.parameters[i].optional = declared[i].questionToken
                 /\ resolved.parameters[i].variadic = declared[i].dotDotDotToken
                 /\ resolved.parameters[i].initializer = declared[i].initializer
           /\ resolved.returnType = signature.returnType

\* C14 witness: an overload with two parameters, the second with a default
\* value, has been resolved and its definition is another declaration.
C14_Witness ==
    /\ last.op = "createResolvedFunctionFromSignature"
    /\ last.outcome = "returned"
    /\ Len(last.resolved.parameters) = 2
    /\ last.resolved.parameters[1].type = "number"
    /\ last.resolved.parameters[2].initializer = "expr"
    /\ last.resolved.definition # NoDeclaration
    /\ last.resolved.definition # last.resolved.declaration

\* C21: a resolved function that is an instance method has a defined class
\* type, its enclosing type, for method signatures and method declarations
\* alike and whether or not the caller passes classType; the resolved function
\* of a construct signature or of a plain function is no instance method.
C21_AsStated ==
    (last.op = "createResolvedFunctionFromSignature" /\ last.outcome = "returned")
    => LET kind == last.input.signature.declaration.kind
       IN  /\ last.resolved.instanceMethod => last.resolved.classType # "none"
           /\ kind \in {"ConstructSignature", "FunctionDeclaration", "ArrowFunction"}
                 => ~last.resolved.instanceMethod

----------------------------------------------------------------------------
(* Properties of the contexts of function bodies (Spec) *)

\* C15: every generation of the body of a speedyjs function creates one fresh
\* child context of the context it is called in and generates the body only in
\* that child. The children are nested like a stack: the contexts created
\* between a context and one of its children are its descendants, and all of
\* them are discarded when the call returns; the calling context is then the
\* current one again, with its scope and its insertion point as before.
C15_BodyInFreshChildContext ==
    last.op = "invokeFunction"
    => LET contexts == last.contexts
           children == 2..Len(contexts)
       IN  /\ contexts[1] = CallingContext
           /\ \A i \in children :
                 /\ contexts[i].parent \in 1..(i - 1)
                 /\ contexts[i].scope \cap CallingContext.scope = {}
                 /\ \A k \in (contexts[i].parent + 1)..(i - 1) :
                        contexts[k].parent >= contexts[i].parent
                 /\ \A j \in children : i # j => contexts[i].function # contexts[j].function
                 /\ \E fn \in functions : fn.name = contexts[i].function
                 /\ \A k \in 1..Len(contexts[i].block) : contexts[i].block[k].op = "call"
                 /\ \E m \in mangled :
                        /\ m.name = contexts[i].function
                        /\ Len(contexts[i].block) <= Len(bodyCalls(m.functionName))
                        /\ contexts[i].discarded
                              => Len(contexts[i].block) = Len(bodyCalls(m.functionName))
           /\ last.outcome = "returned"
                 => /\ last.context = 1
                    /\ \A i \in children : contexts[i].discarded

\* C15 witness: a call has generated the body of a function in a child context
\* and, nested in it, the body of a function it calls in a child of that child.
C15_Witness ==
    /\ last.op = "invokeFunction"
    /\ last.outcome = "returned"
    /\ Len(last.contexts) >= 3
    /\ last.contexts[3].parent = 2
    /\ last.contexts[2].block # <<>>
    /\ last.context = 1

----------------------------------------------------------------------------
(* Properties of the layout of arrays (SpecTypes) *)

\* the struct type the last step returned
ReturnedStruct == CHOOSE struct \in structTypes : struct.id = last.value.ir.n

ElementTypeOf(type) == getNonNullableType(getArrayElementType(type))

----------------------------------------------------------------------------
(* Properties of failures (SpecUnit) *)

----------------------------------------------------------------------------
(* Properties of the dispatch on node kinds (SpecVisit) *)

----------------------------------------------------------------------------
(* Properties of the compiler options (SpecOptions) *)

\* C19: initializeCompilerOptions gives every option that is absent its
\* documented default: unsafe true, emitLLVM false, saveWast false, saveBc
\* false, binaryenOpt true, initialMemory 16 MB, totalStack 5 MB (less than
\* initialMemory), globalBase 1024, disableHeapNukeOnExit true, exposeGc false,
\* exportGc false and optimizationLevel "3".
C19_AsStated ==
    (last.op = "initializeCompilerOptions" /\ last.outcome = "returned")
    => /\ \A key \in DOMAIN documentedDefaults :
             last.input.compilerOptions[key] = {}
                => last.options[key] = {documentedDefaults[key]}
       /\ documentedDefaults.totalStack < documentedDefaults.initialMemory

----------------------------------------------------------------------------
(* Properties of references to elements (SpecIndex) *)

\* the calls of the function among the instructions of the last step
CallsOf(fn) ==
    {i \in 1..Len(last.emitted) : last.emitted[i].op = "call" /\ last.emitted[i].fn = fn}

----------------------------------------------------------------------------
(* Properties of provided compiler options (SpecOptions) *)

\* C24: initializeCompilerOptions keeps every value the caller has provided,
\* also false and 0, for the options that have a default, and for every option
\* other than strictNullChecks, noImplicitAny and noImplicitReturns; these three
\* are true in the result for every input. A second application to the result
\* of the first returns the same options.
C24_ProvidedValuesKept ==
    (last.op = "initializeCompilerOptions" /\ last.outcome = "returned")
    => LET provided == last.input.compilerOptions
       IN  /\ \A key \in DOMAIN defaults :
                 provided[key] # {} => last.options[key] = provided[key]
           /\ \A key \in OptionKeys \ ForcedOptions :
                 provided[key] # {} => last.first[key] = provided[key]
           /\ \A key \in ForcedOptions : last.options[key] = {TRUE}
           /\ \A key \in OptionKeys : last.options[key] # {}
           /\ last.applications = 2 => last.options = last.first

\* C24 witness: options with unsafe false and globalBase 0 provided have been
\* initialized twice.
C24_Witness ==
    /\ last.op = "initializeCompilerOptions"
    /\ last.outcome = "returned"
    /\ last.applications = 2
    /\ last.input.compilerOptions.unsafe = {FALSE}
    /\ last.input.compilerOptions.globalBase = {0}
    /\ last.options.unsafe = {FALSE}

----------------------------------------------------------------------------
(* Properties of isPrime (SpecPrime) *)

\* the value is a prime number
IsPrimeNumber(value) ==
    /\ value >= 2
    /\ \A i \in 2..(value - 1) : value % i # 0

\* C25: isPrime(value) returns true exactly when value is a prime number: false
\* for every value below 2, true for 2 and 3, and for larger values true iff no
\* i with 2 <= i <= floor(sqrt(value)) divides value.
C25_AsStated ==
    (last.op = "isPrime" /\ last.outcome = "returned")
    => /\ last.result = IsPrimeNumber(last.input.value)
       /\ last.input.value \in {2, 3} => last.result
       /\ last.input.value < 2 => ~last.result

====
